---- MODULE Spec2Model ----
(***************************************************************************)
(* A model of the filesystem abstraction layer of riscos-filer-python      *)
(* (fs.py) over the native backend (fsnative.py).                          *)
(*                                                                         *)
(* A Python string is a sequence of one-character strings, so that the     *)
(* path functions (split, join, dirandleafname, normalise_name) are        *)
(* computed as the code computes them.  Every public method is one atomic  *)
(* action (the layer is synchronous and single threaded); the methods it   *)
(* calls are operators that thread a "world" record                        *)
(*   [cache, dirs, disk, calls]                                            *)
(* through the call and return the world together with the returned value  *)
(* or the raised error.                                                    *)
(***************************************************************************)
EXTENDS Integers, Sequences, FiniteSets, TLC

VARIABLES
    do_caching,       \* FSBase.do_caching
    supports_mkdir,   \* FSBase.supports_mkdir
    supports_delete,  \* FSBase.supports_delete
    supports_rename,  \* FSBase.supports_rename
    writeable,        \* backend: the native directories whose is_writeable() is true
    deletable,        \* backend: whether its Entry.can_delete override allows deletion
    disk,             \* backend: native path -> "dir" | "file", for what exists
    cached_dirs,      \* FSBase.cached_dirs: normalised dirname -> Container
    dirs,             \* the Containers that are referenced: identity -> fields
    pathname,         \* the path string the PathModel's functions are applied to
    nativefile,       \* one FSFileNative instance: its memo fields
    inode,            \* backend: what os.stat finds at that Entry's native file
    oscalls,          \* the queries of the backend made through that Entry
    open_windows,     \* FSExplorers.open_windows: normalised dirname -> frame
    frames            \* the explorer frames that are open: identity -> dirname

vars == <<do_caching, supports_mkdir, supports_delete, supports_rename,
          writeable, deletable, disk, cached_dirs, dirs, pathname,
          nativefile, inode, oscalls, open_windows, frames>>

-----------------------------------------------------------------------------
(* Bounds of the model *)

\* Containers the client may hold at once when nothing is cached.
MaxHeld == 3

\* Depth of the backend's store below its anchor.
MaxDepth == 2

\* Length of the path strings the PathModel's functions are applied to.
MaxPath == 5

\* Queries of the backend made through the one native Entry.
MaxCalls == 3

\* Explorer frames open at a time.
MaxFrames == 4

-----------------------------------------------------------------------------
(* Values *)

None == <<"<None>">>
NoDir == <<None, 0>>
Range(s) == {s[i] : i \in DOMAIN s}

\* The names the backend may hold, and the order os.listdir reports them in.
Names == {<<"A">>, <<"B">>, <<"a">>, <<"b">>}
Ascending == << <<"A">>, <<"B">>, <<"a">>, <<"b">> >>
ListOrders == {Ascending, << <<"b">>, <<"a">>, <<"B">>, <<"A">> >>}

\* The normalised keys of those names.
Keys == {<<"a">>, <<"b">>}

\* Str("/A") is the Python string '/A'.
Str(str) ==
    CASE str = "" -> <<>>
      [] str = "/" -> <<"/">>
      [] str = "a" -> <<"a">>
      [] str = "A" -> <<"A">>
      [] str = "b" -> <<"b">>
      [] str = "/a" -> <<"/", "a">>
      [] str = "/A" -> <<"/", "A">>
      [] str = "/b" -> <<"/", "b">>
      [] str = "/A/A" -> <<"/", "A", "/", "A">>
      [] str = "/A/a" -> <<"/", "A", "/", "a">>
      [] str = "/A/b" -> <<"/", "A", "/", "b">>
      [] str = "/a/b" -> <<"/", "a", "/", "b">>

\* Path strings and leafnames the calls are examined with.
Paths == {Str(""), Str("/"), Str("/A"), Str("/a"), Str("/b"), Str("/A/b")}
Leaves == {<<"A">>, <<"a">>, <<"b">>}

\* The directory names the caller resolves.
DirArgs == {Str("/"), Str("/A"), Str("/a")}

-----------------------------------------------------------------------------
(* PathModel *)

dirsep == "/"
rootname == <<"/">>

Lower(c) == IF c = "A" THEN "a" ELSE IF c = "B" THEN "b" ELSE c

CodePoint(c) ==
    CASE c = "/" -> 47 [] c = "A" -> 65 [] c = "B" -> 66
      [] c = "a" -> 97 [] c = "b" -> 98 [] OTHER -> 0

RECURSIVE normalise_name(_)
normalise_name(name) ==
    IF name = <<>> THEN <<>>
    ELSE <<Lower(Head(name))>> \o normalise_name(Tail(name))

RECURSIVE SplitFrom(_, _, _)
SplitFrom(s, cur, acc) ==
    IF s = <<>> THEN (IF cur = <<>> THEN acc ELSE Append(acc, cur))
    ELSE IF Head(s) = dirsep
         THEN SplitFrom(Tail(s), <<>>, IF cur = <<>> THEN acc ELSE Append(acc, cur))
         ELSE SplitFrom(Tail(s), Append(cur, Head(s)), acc)

split(filename) == SplitFrom(filename, <<>>, <<>>)

RECURSIVE JoinSep(_)
JoinSep(parts) ==
    IF parts = <<>> THEN <<>>
    ELSE IF Len(parts) = 1 THEN parts[1]
    ELSE parts[1] \o <<dirsep>> \o JoinSep(Tail(parts))

RECURSIVE ExpandArgs(_)
ExpandArgs(args) ==
    IF args = <<>> THEN <<>>
    ELSE (IF dirsep \in Range(Head(args)) THEN split(Head(args)) ELSE <<Head(args)>>)
         \o ExpandArgs(Tail(args))

StartsWith(s, prefix) ==
    Len(s) >= Len(prefix) /\ SubSeq(s, 1, Len(prefix)) = prefix

join(args) ==
    LET rooted(name) == IF ~StartsWith(name, rootname) THEN rootname \o name ELSE name
    IN  rooted(JoinSep(ExpandArgs(args)))

\* A decomposition that answers a single component with the root marker.
dirandleafname_rooted(filename) ==
    LET pair(parts) ==
            IF Len(parts) > 1
            THEN <<join(SubSeq(parts, 1, Len(parts) - 1)), parts[Len(parts)]>>
            ELSE IF Len(parts) = 1 THEN <<rootname, parts[1]>>
            ELSE <<rootname, <<>>>>
    IN  pair(split(filename))

dirandleafname(filename) ==
    LET pair(parts) ==
            IF Len(parts) > 1
            THEN <<join(SubSeq(parts, 1, Len(parts) - 1)), parts[Len(parts)]>>
            ELSE IF Len(parts) = 1 THEN <<<<>>, parts[1]>>
            ELSE <<rootname, <<>>>>
    IN  pair(split(filename))

dirname(filename) == dirandleafname(filename)[1]
leafname(filename) == dirandleafname(filename)[2]

\* str.__lt__: lexicographic on code points.
RECURSIVE StrLess(_, _)
StrLess(s, t) ==
    IF t = <<>> THEN FALSE
    ELSE IF s = <<>> THEN TRUE
    ELSE IF CodePoint(Head(s)) # CodePoint(Head(t))
         THEN CodePoint(Head(s)) < CodePoint(Head(t))
         ELSE StrLess(Tail(s), Tail(t))

-----------------------------------------------------------------------------
(* The native backend's store *)

\* FSNative.native_filename with an anchor below the host root, as app.py
\* constructs it: the path's components under the anchor.
native_filename(filename) == split(filename)

Kind(d, np) ==
    IF np = <<>> THEN "dir" ELSE IF np \in DOMAIN d THEN d[np] ELSE "none"

\* os.listdir: the names directly under np.
Members(d, np) ==
    {n \in Names : Append(np, n) \in DOMAIN d}

\* What a path of the store stands on: its parent directory exists.
WellFormed(d) ==
    \A np \in DOMAIN d :
        np # <<>> /\ Kind(d, SubSeq(np, 1, Len(np) - 1)) = "dir"

-----------------------------------------------------------------------------
(* Worlds and results *)

\* The state a call works on, and the hooks it has invoked so far.
World == [cache |-> cached_dirs, dirs |-> dirs, disk |-> disk, calls |-> <<>>]

Ok(w, ret) == [w |-> w, err |-> "", ret |-> ret]
Raise(w, err) == [w |-> w, err |-> err, ret |-> None]

Called(w, hook, on, arg) ==
    [w EXCEPT !.calls = Append(@, [hook |-> hook, on |-> on, arg |-> arg])]

Hooks(w, hook) == SelectSeq(w.calls, LAMBDA c : c.hook = hook)

Extend(f, k, v) == [x \in DOMAIN f \cup {k} |-> IF x = k THEN v ELSE f[x]]

Truthy(s) == s # None /\ s # <<>>

-----------------------------------------------------------------------------
(* The Container's population, and FSBase.dir *)

\* An invalidate() that also drops the Container from the cache.
invalidate_uncaching(w, id) ==
    [w EXCEPT !.dirs[id].populated = FALSE,
              !.dirs[id].files = <<>>,
              !.dirs[id].fetched = FALSE,
              !.cache = [k \in {x \in DOMAIN w.cache : w.cache[x] # id} |-> w.cache[k]]]

\* An invalidate() that also resets the Containers below this one.
invalidate_recursive(w, id) ==
    LET below(other) ==
            /\ Len(w.dirs[other].dirname) >= Len(w.dirs[id].dirname)
            /\ SubSeq(w.dirs[other].dirname, 1, Len(w.dirs[id].dirname))
                   = w.dirs[id].dirname
    IN  [w EXCEPT !.dirs = [other \in DOMAIN w.dirs |->
                              IF other = id \/ below(other)
                              THEN [w.dirs[other] EXCEPT !.populated = FALSE,
                                                         !.files = <<>>,
                                                         !.fetched = FALSE]
                              ELSE w.dirs[other]]]

\* FSDirectoryBase.invalidate
invalidate(w, id) ==
    [w EXCEPT !.dirs[id].populated = FALSE,
              !.dirs[id].files = <<>>,
              !.dirs[id].fetched = FALSE]

\* FSFileNative.__init__ over FSFileBase.__init__: the Entry's fields.
FSFileNative(filename) == [filename |-> filename, isdir |-> "unset"]

\* FSDirectoryNative.get_file
get_file(w, id, leaf) == FSFileNative(join(<<w.dirs[id].dirname, leaf>>))

\* FSDirectoryNative.get_filelist: os.listdir of the native directory, in the
\* order the host reports.
get_filelist(w, id, order) ==
    SelectSeq(order,
              LAMBDA n : n \in Members(w.disk, native_filename(w.dirs[id].dirname)))

\* The loop of populate_files: a later name replaces an earlier one under
\* the same normalised key.
RECURSIVE StoreFiles(_, _, _, _)
StoreFiles(w, id, filelist, known) ==
    LET store(fsfile) ==
            StoreFiles(w, id, Tail(filelist),
                       Extend(known, normalise_name(leafname(fsfile.filename)), fsfile))
    IN  IF filelist = <<>> THEN known
        ELSE store(get_file(w, id, Head(filelist)))

\* A populate_files() that fetches the members on every call.
populate_files_always(w, id, order) ==
    LET w1 == [Called(w, "get_filelist", id, None) EXCEPT !.dirs[id].fetched = TRUE]
    IN  IF Kind(w.disk, native_filename(w.dirs[id].dirname)) # "dir"
        THEN Raise(w1, "OSError")
        ELSE Ok([w1 EXCEPT !.dirs[id].populated = TRUE,
                           !.dirs[id].files =
                               StoreFiles(w1, id, get_filelist(w1, id, order), <<>>)],
                None)

\* FSDirectoryBase.populate_files; os.listdir raises an OSError when the
\* native directory is gone or is no directory, and _files stays None.
\* "fetched" records that get_filelist has run since the Container was made
\* or last invalidated.
populate_files(w, id, order) ==
    LET w1 == [Called(w, "get_filelist", id, None) EXCEPT !.dirs[id].fetched = TRUE]
    IN  IF w.dirs[id].populated THEN Ok(w, None)
        ELSE IF Kind(w.disk, native_filename(w.dirs[id].dirname)) # "dir"
        THEN Raise(w1, "OSError")
        ELSE Ok([w1 EXCEPT !.dirs[id].populated = TRUE,
                           !.dirs[id].files =
                               StoreFiles(w1, id, get_filelist(w1, id, order), <<>>)],
                None)

\* An Entry order that ignores case.
EntryLess_folded(e, f) ==
    StrLess(normalise_name(leafname(e.filename)),
            normalise_name(leafname(f.filename)))

\* FSFileBase.__lt__: Entries order by leafname.
EntryLess(e, f) == StrLess(leafname(e.filename), leafname(f.filename))

\* sorted() on a collection of Entries.
RECURSIVE Sorted(_)
Sorted(S) ==
    LET rest(m) == <<m>> \o Sorted(S \ {m})
    IN  IF S = {} THEN <<>>
        ELSE rest(CHOOSE x \in S : \A y \in S \ {x} : ~EntryLess(y, x))

\* FSDirectoryBase.files
files(w, id, order) ==
    LET listed(p) ==
            IF p.err # "" THEN p
            ELSE Ok(p.w, Sorted(Range(p.w.dirs[id].files)))
    IN  listed(populate_files(w, id, order))

\* FSDirectoryBase.__len__
dir_len(w, id, order) ==
    LET counted(l) == IF l.err # "" THEN l ELSE Ok(l.w, Len(l.ret))
    IN  counted(files(w, id, order))

\* The identity of a new Container: its cache key and a serial that no
\* Container in reach carries.
NewDirId(w, key) ==
    <<key, 1 + Cardinality({id \in DOMAIN w.dirs : id[1] = key})>>

\* FSNative.get_dir with FSDirectoryBase.__init__. "parent or self" asks the
\* parent Container for its truth value, which is its __len__: the parent
\* is listed, and an empty parent makes the new Container its own parent.
get_dir(w, name, parent_fsdir, order) ==
    LET init(id, n) ==
            IF n.err # "" THEN n
            ELSE
            Ok([n.w EXCEPT !.dirs =
                    Extend(@, id,
                           [dirname |-> name,
                            parent |-> IF parent_fsdir # NoDir /\ n.ret > 0
                                       THEN parent_fsdir ELSE id,
                            populated |-> FALSE,
                            files |-> <<>>,
                            fetched |-> FALSE])],
               id)
        new(id) ==
            init(id, IF parent_fsdir = NoDir
                     THEN Ok(Called(w, "get_dir", id, name), 0)
                     ELSE dir_len(Called(w, "get_dir", id, name), parent_fsdir, order))
    IN  new(NewDirId(w, normalise_name(name)))

\* A dir() that consults the cache and never fills it.
RECURSIVE dir_unstored(_, _, _)
dir_unstored(w, name, order) ==
    LET make(up) ==
            IF up.err # "" THEN up
            ELSE get_dir(up.w, name, up.ret, order)
        lookup(cache_key, parent) ==
            IF do_caching /\ cache_key \in DOMAIN w.cache
            THEN Ok(w, w.cache[cache_key])
            ELSE make(IF name # parent /\ name # <<>>
                      THEN dir_unstored(w, parent, order)
                      ELSE Ok(w, NoDir))
    IN  lookup(normalise_name(name), dirname(name))

\* A dir() without the empty-path check of the ancestor walk.
RECURSIVE dir_unguarded(_, _, _)
dir_unguarded(w, name, order) ==
    LET store(cache_key, made) ==
            IF made.err = "" /\ do_caching
            THEN Ok([made.w EXCEPT !.cache = Extend(@, cache_key, made.ret)],
                    made.ret)
            ELSE made
        make(cache_key, up) ==
            IF up.err # "" THEN up
            ELSE store(cache_key, get_dir(up.w, name, up.ret, order))
        lookup(cache_key, parent) ==
            IF do_caching /\ cache_key \in DOMAIN w.cache
            THEN Ok(w, w.cache[cache_key])
            ELSE make(cache_key, IF name # parent
                                 THEN dir_unguarded(w, parent, order)
                                 ELSE Ok(w, NoDir))
    IN  lookup(normalise_name(name), dirname(name))

\* FSBase.dir
RECURSIVE dir(_, _, _)
dir(w, name, order) ==
    LET store(cache_key, made) ==
            IF made.err = "" /\ do_caching
            THEN Ok([made.w EXCEPT !.cache = Extend(@, cache_key, made.ret)],
                    made.ret)
            ELSE made
        make(cache_key, up) ==
            IF up.err # "" THEN up
            ELSE store(cache_key, get_dir(up.w, name, up.ret, order))
        lookup(cache_key, parent) ==
            IF do_caching /\ cache_key \in DOMAIN w.cache
            THEN Ok(w, w.cache[cache_key])
            ELSE make(cache_key, IF name # parent /\ name # <<>>
                                 THEN dir(w, parent, order)
                                 ELSE Ok(w, NoDir))
    IN  lookup(normalise_name(name), dirname(name))

\* FSBase.rootdir: the root has no parent to list.
rootdir(w) == dir(w, rootname, Ascending)

\* FSNative.rootdir: the override constructs a Container of the root, with
\* no parent, and does not go through dir().
FSNative_rootdir(w) ==
    LET new(id) ==
            Ok([w EXCEPT !.dirs =
                   Extend(@, id,
                          [dirname |-> rootname,
                           parent |-> id,
                           populated |-> FALSE,
                           files |-> <<>>,
                           fetched |-> FALSE])],
               id)
    IN  new(NewDirId(w, normalise_name(rootname)))

\* An invalidate_dir() that drops the directory's cache entry.
invalidate_dir_evicting(w, name) ==
    LET reset(cache_key) ==
            IF do_caching /\ cache_key \in DOMAIN w.cache
            THEN [invalidate(w, w.cache[cache_key])
                     EXCEPT !.cache = [k \in (DOMAIN w.cache) \ {cache_key} |-> w.cache[k]]]
            ELSE w
    IN  reset(normalise_name(name))

\* FSBase.invalidate_dir
invalidate_dir(w, name) ==
    LET reset(cache_key) ==
            IF do_caching /\ cache_key \in DOMAIN w.cache
            THEN invalidate(w, w.cache[cache_key])
            ELSE w
    IN  reset(normalise_name(name))

\* FSDirectoryBase.__contains__
contains(w, id, name, order) ==
    LET has(p) ==
            IF p.err # "" THEN p
            ELSE Ok(p.w, normalise_name(name) \in DOMAIN p.w.dirs[id].files)
    IN  has(populate_files(w, id, order))

\* A look-up by the name as given, without normalising it.
getitem_name_exact(w, id, name, order) ==
    LET get(p) ==
            IF p.err # "" THEN p
            ELSE IF \A k \in DOMAIN p.w.dirs[id].files :
                       leafname(p.w.dirs[id].files[k].filename) # name
            THEN Raise(p.w, "FSFileNotFoundError")
            ELSE Ok(p.w, p.w.dirs[id].files[normalise_name(name)])
    IN  get(populate_files(w, id, order))

\* FSDirectoryBase.__getitem__ with a string
getitem_name(w, id, name, order) ==
    LET get(namekey, p) ==
            IF p.err # "" THEN p
            ELSE IF namekey \notin DOMAIN p.w.dirs[id].files
            THEN Raise(p.w, "FSFileNotFoundError")
            ELSE Ok(p.w, p.w.dirs[id].files[namekey])
    IN  get(normalise_name(name), populate_files(w, id, order))

\* FSDirectoryBase.__getitem__ with an int: a Python list index, which
\* counts from the end when negative.
getitem_index(w, id, index, order) ==
    LET at(l) ==
            IF l.err # "" THEN l
            ELSE IF index >= 0 /\ index < Len(l.ret)
            THEN Ok(l.w, l.ret[index + 1])
            ELSE IF index < 0 /\ -index <= Len(l.ret)
            THEN Ok(l.w, l.ret[Len(l.ret) + index + 1])
            ELSE Raise(l.w, "FSFileNotFoundError")
    IN  at(files(w, id, order))

-----------------------------------------------------------------------------
(* Entry (FSFileBase, FSFileNative) *)

\* FSNative.rootinfo
rootinfo == FSFileNative(rootname)

\* FSFileNative.isdir of the Entry stored under key in Container id:
\* os.path.isdir is asked once and the answer kept in _isdir.
file_isdir(w, id, key) ==
    LET stat(e, found) ==
            IF e.isdir # "unset" THEN Ok(w, e.isdir = "yes")
            ELSE Ok([Called(w, "os.path.isdir", id, e.filename)
                        EXCEPT !.dirs[id].files[key].isdir =
                                   IF found THEN "yes" ELSE "no"],
                    found)
    IN  stat(w.dirs[id].files[key],
             Kind(w.disk, native_filename(w.dirs[id].files[key].filename)) = "dir")

\* FSFileBase.parent
file_parent(w, filename, order) == dir(w, dirname(filename), order)

\* FSDirectoryBase.is_writeable, as a backend overrides it: by the native
\* directory the Container stands for.
is_writeable(w, id) == native_filename(w.dirs[id].dirname) \in writeable

\* An Entry can_delete() that does not ask the Filesystem's flag.
file_can_delete_unflagged(w, filename, order) ==
    LET gate(p) ==
            IF p.err # "" THEN p
            ELSE IF ~is_writeable(p.w, p.ret) THEN Ok(p.w, FALSE)
            ELSE Ok(p.w, deletable)
    IN  gate(file_parent(w, filename, order))

\* FSFileBase.can_delete, as a backend overrides it: the base gates, then
\* the backend's own answer (the base answers False).
file_can_delete(w, filename, order) ==
    LET gate(p) ==
            IF p.err # "" THEN p
            ELSE IF ~is_writeable(p.w, p.ret) THEN Ok(p.w, FALSE)
            ELSE Ok(p.w, deletable)
    IN  IF ~supports_delete THEN Ok(w, FALSE)
        ELSE gate(file_parent(w, filename, order))

HasChildren(d, np) ==
    \E q \in DOMAIN d : Len(q) > Len(np) /\ SubSeq(q, 1, Len(np)) = np

\* FSFileBase.do_delete, as a backend overrides it: it removes the file or
\* the empty directory, or raises as the base does.
do_delete(w, filename, hook_ok) ==
    LET remove(np, w1) ==
            IF hook_ok /\ Kind(w.disk, np) # "none" /\ np # <<>>
                       /\ ~HasChildren(w.disk, np)
            THEN Ok([w1 EXCEPT !.disk = [q \in (DOMAIN w.disk) \ {np} |-> w.disk[q]]],
                    None)
            ELSE Raise(w1, "FSDeleteFailedError")
    IN  remove(native_filename(filename), Called(w, "do_delete", NoDir, filename))

\* FSFileBase.dir
file_dir(w, id, key, order) ==
    LET resolve(d) ==
            IF d.err # "" THEN d
            ELSE IF ~d.ret THEN Raise(d.w, "FSNotADirectoryError")
            ELSE dir(d.w, d.w.dirs[id].files[key].filename, order)
    IN  resolve(file_isdir(w, id, key))

\* FSFileBase.delete
file_delete(w, id, key, order, hook_ok) ==
    LET invalidated(t) ==
            IF t.err # "" THEN t ELSE Ok(invalidate(t.w, t.ret), None)
        deleted(d) ==
            IF d.err # "" THEN d ELSE invalidated(file_dir(d.w, id, key, order))
        checked(c) ==
            IF c.err # "" THEN c
            ELSE IF ~c.ret THEN Raise(c.w, "FSDeleteFailedError")
            ELSE deleted(do_delete(c.w, w.dirs[id].files[key].filename, hook_ok))
    IN  checked(file_can_delete(w, w.dirs[id].files[key].filename, order))

\* The error kinds of fs.py: the specialisations of FSError.
FSError ==
    {"FSFileNotFoundError", "FSReadFailedError", "FSNotADirectoryError",
     "FSWriteFailedError", "FSMkDirFailedError", "FSDeleteFailedError",
     "FSRenameFailedError"}

\* FSFileBase.open: the base Entry has no read hook.
FSFileBase_open(w, filename) == Raise(w, "NotImplementedError")

\* FSFileNative.open: the host opens the native file, and raises an OSError
\* for a directory or for a name that is gone.
FSFileNative_open(w, filename) ==
    IF Kind(w.disk, native_filename(filename)) = "file"
    THEN Ok(w, <<"handle", filename>>)
    ELSE Raise(w, "OSError")

\* FSFileBase.read, on a native Entry or on a base one: what open() raises
\* leaves read().
file_read(w, filename, native) ==
    LET data(fh) == IF fh.err # "" THEN fh ELSE Ok(fh.w, <<"data", filename>>)
    IN  data(IF native THEN FSFileNative_open(w, filename)
             ELSE FSFileBase_open(w, filename))

-----------------------------------------------------------------------------
(* One native Entry and its memo of the backend's answers *)

\* The variables of the Entry under observation.
Native == <<nativefile, inode, oscalls>>

\* A field that is None until a value is stored in it.
Unknown == [known |-> FALSE]
Known(value) == [known |-> TRUE, value |-> value]

\* FSFileNative.__init__ over FSFileBase.__init__: nothing is known yet.
NativeEntry ==
    [isdir |-> "unset", stat_read |-> FALSE, size |-> Unknown, epochtime |-> Unknown]

\* What os.stat can find at the native file: nothing, or a file or a
\* directory of some size and modification time.
Missing == [found |-> FALSE]
Inodes == [found : {TRUE}, st_size : {0, 1}, st_mtime : {1, 2}, dir : BOOLEAN]

\* The outcome of a method of the Entry: the Entry, the queries made so far,
\* and the value returned or the error raised.
Gave(e, log, ret) == [e |-> e, log |-> log, err |-> "", ret |-> ret]
Threw(e, log, err) == [e |-> e, log |-> log, err |-> err, ret |-> None]

\* FSFileNative.isdir: os.path.isdir answers False for a missing file.
native_isdir(e, node, log) ==
    LET found == node.found /\ node.dir
    IN  IF e.isdir = "unset"
        THEN Gave([e EXCEPT !.isdir = IF found THEN "yes" ELSE "no"],
                  Append(log, [call |-> "os.path.isdir", result |-> found]),
                  found)
        ELSE Gave(e, log, e.isdir = "yes")

\* A _stat() that asks the backend on every call.
native_stat_always(e, node, log) ==
    IF ~node.found
    THEN Threw(e, Append(log, [call |-> "os.stat", result |-> node]), "OSError")
    ELSE Gave([e EXCEPT !.size = Known(node.st_size),
                        !.epochtime = Known(node.st_mtime),
                        !.stat_read = TRUE],
              Append(log, [call |-> "os.stat", result |-> node]),
              None)

\* FSFileNative._stat: os.stat raises for a missing file, before the memo
\* is marked as read.
native_stat(e, node, log) ==
    IF e.stat_read THEN Gave(e, log, None)
    ELSE IF ~node.found
    THEN Threw(e, Append(log, [call |-> "os.stat", result |-> node]), "OSError")
    ELSE Gave([e EXCEPT !.size = Known(node.st_size),
                        !.epochtime = Known(node.st_mtime),
                        !.stat_read = TRUE],
              Append(log, [call |-> "os.stat", result |-> node]),
              None)

\* FSFileNative.size over FSFileBase.size
native_size(e, node, log) ==
    LET size(s) ==
            IF s.err # "" THEN s
            ELSE Gave(s.e, s.log, IF ~s.e.size.known THEN -1 ELSE s.e.size.value)
    IN  size(native_stat(e, node, log))

\* FSFileNative.epochtime over FSFileBase.epochtime
native_epochtime(e, node, log) ==
    LET epochtime(s) ==
            IF s.err # "" THEN s
            ELSE Gave(s.e, s.log,
                      IF ~s.e.epochtime.known THEN 0 ELSE s.e.epochtime.value)
    IN  epochtime(native_stat(e, node, log))

-----------------------------------------------------------------------------
(* The explorer window registry (FSExplorers) and its frames *)

\* The variables of the explorer windows.
Gui == <<open_windows, frames>>

\* The registry and the open frames, threaded through a call.
Desk == [open_windows |-> open_windows, frames |-> frames]

\* The directories explorer frames are opened on, and the directory
\* Entries a frame of each shows.
ExplorerDirs == {Str("/"), Str("/A"), Str("/a")}
Subdirs(name) == IF name = rootname THEN {Str("/A")} ELSE {}

\* FSExplorers.fsfile_key
fsfile_key(name) == normalise_name(name)

\* FSExplorers.window_has_closed
window_has_closed(x, name) ==
    IF fsfile_key(name) \in DOMAIN x.open_windows
    THEN [x EXCEPT !.open_windows =
             [k \in (DOMAIN x.open_windows) \ {fsfile_key(name)} |-> x.open_windows[k]]]
    ELSE x

\* FSExplorerFrame.on_close, as wx.Frame.Close() delivers it: the frame
\* tells the registry that the window of its directory has closed, and the
\* skipped event destroys the frame.
on_close(x, window) ==
    IF window \notin DOMAIN x.frames THEN x
    ELSE [window_has_closed(x, x.frames[window].dirname)
             EXCEPT !.frames = [f \in (DOMAIN x.frames) \ {window} |-> x.frames[f]]]

\* FSExplorers.window_has_opened
window_has_opened(x, name, window) ==
    LET register(y) ==
            [y EXCEPT !.open_windows = Extend(@, fsfile_key(name), window)]
    IN  IF fsfile_key(name) \in DOMAIN x.open_windows
        THEN register(on_close(x, x.open_windows[fsfile_key(name)]))
        ELSE register(x)

\* FSExplorers.find_window
find_window(x, name) ==
    IF fsfile_key(name) \in DOMAIN x.open_windows
    THEN x.open_windows[fsfile_key(name)] ELSE 0

\* FSExplorerFrame.create_panel, for a frame created with a registry.
create_panel(x, window) ==
    window_has_opened(window_has_closed(x, x.frames[window].dirname),
                      x.frames[window].dirname, window)

\* FSExplorerFrame.__init__ with explorers=: the new frame on a directory.
NewFrame(x) == CHOOSE f \in 1..(Cardinality(DOMAIN x.frames) + 1) : f \notin DOMAIN x.frames
FSExplorerFrame(x, name) ==
    create_panel([x EXCEPT !.frames = Extend(@, NewFrame(x), [dirname |-> name])],
                 NewFrame(x))

\* FSExplorers.open_window
open_window(x, name) ==
    IF find_window(x, name) # 0 THEN x ELSE FSExplorerFrame(x, name)

\* FSExplorerFrame.ChangeDirectory
ChangeDirectory(x, window, name) ==
    create_panel([window_has_closed(x, x.frames[window].dirname)
                     EXCEPT !.frames[window].dirname = name],
                 window)

\* FSExplorerFrame.OnFileOpenDir
OnFileOpenDir(x, window, target, close) ==
    IF find_window(x, target) # 0
    THEN IF close THEN on_close(x, window) ELSE x
    ELSE IF close THEN ChangeDirectory(x, window, target)
    ELSE open_window(x, target)

\* FSExplorerFrame.RefreshDirectory
RefreshDirectory(x, window) == create_panel(x, window)

\* DemoFrame.OnOpen
OnOpen(x) == FSExplorerFrame(x, rootname)

-----------------------------------------------------------------------------
(* Container (FSDirectoryBase): gates and mutations *)

\* "except Exception: return False"
Swallowed(r) == IF r.err # "" THEN Ok(r.w, FALSE) ELSE r

\* A can_mkdir() that lists the directory before it answers.
dir_can_mkdir_listing(w, id) ==
    IF ~supports_mkdir THEN Ok(w, FALSE)
    ELSE Swallowed([populate_files(w, id, Ascending)
                       EXCEPT !.ret = is_writeable(w, id)])

\* A can_mkdir() that does not ask the Filesystem's flag.
dir_can_mkdir_unflagged(w, id) == Ok(w, is_writeable(w, id))

\* FSDirectoryBase.can_mkdir
dir_can_mkdir(w, id) ==
    IF ~supports_mkdir THEN Ok(w, FALSE)
    ELSE Ok(w, is_writeable(w, id))

\* A can_delete() that does not ask the Entry it finds.
dir_can_delete_found(w, id, leaf, order) ==
    LET ask(fsfile) ==
            IF fsfile.err # "" THEN fsfile ELSE Ok(fsfile.w, TRUE)
    IN  IF ~supports_delete THEN Ok(w, FALSE)
        ELSE IF ~is_writeable(w, id) THEN Ok(w, FALSE)
        ELSE Swallowed(ask(getitem_name(w, id, leaf, order)))

\* FSDirectoryBase.can_delete
dir_can_delete(w, id, leaf, order) ==
    LET ask(fsfile) ==
            IF fsfile.err # "" THEN fsfile
            ELSE file_can_delete(fsfile.w, fsfile.ret.filename, order)
    IN  IF ~supports_delete THEN Ok(w, FALSE)
        ELSE IF ~is_writeable(w, id) THEN Ok(w, FALSE)
        ELSE Swallowed(ask(getitem_name(w, id, leaf, order)))

\* A can_rename() that does not look for the destination name.
dir_can_rename_any_dest(w, id, source_leafname, dest_leafname, order) ==
    LET found(source_fsfile) ==
            IF source_fsfile.err # "" THEN source_fsfile
            ELSE Ok(source_fsfile.w, TRUE)
    IN  IF ~supports_rename THEN Ok(w, FALSE)
        ELSE IF ~is_writeable(w, id) THEN Ok(w, FALSE)
        ELSE IF Truthy(dest_leafname)
                /\ normalise_name(source_leafname) = normalise_name(dest_leafname)
             THEN Ok(w, TRUE)
        ELSE Swallowed(found(getitem_name(w, id, source_leafname, order)))

\* FSDirectoryBase.can_rename
dir_can_rename(w, id, source_leafname, dest_leafname, order) ==
    LET free(c) == IF c.err # "" THEN c ELSE Ok(c.w, ~c.ret)
        found(source_fsfile) ==
            IF source_fsfile.err # "" THEN source_fsfile
            ELSE IF ~Truthy(dest_leafname) THEN Ok(source_fsfile.w, TRUE)
            ELSE free(contains(source_fsfile.w, id, dest_leafname, order))
    IN  IF ~supports_rename THEN Ok(w, FALSE)
        ELSE IF ~is_writeable(w, id) THEN Ok(w, FALSE)
        ELSE IF Truthy(dest_leafname)
                /\ normalise_name(source_leafname) = normalise_name(dest_leafname)
             THEN Ok(w, TRUE)
        ELSE Swallowed(found(getitem_name(w, id, source_leafname, order)))

\* FSDirectoryBase.do_mkdir, as a backend overrides it: it creates the
\* directory in the store, or raises as the base does.
do_mkdir(w, id, leaf, hook_ok) ==
    LET make(np, w1) ==
            IF /\ hook_ok
               /\ np # <<>>
               /\ Len(np) <= MaxDepth
               /\ np[Len(np)] \in Names
               /\ Kind(w.disk, np) = "none"
               /\ Kind(w.disk, SubSeq(np, 1, Len(np) - 1)) = "dir"
            THEN Ok([w1 EXCEPT !.disk = Extend(@, np, "dir")], None)
            ELSE Raise(w1, "FSWriteFailedError")
    IN  make(native_filename(join(<<w.dirs[id].dirname, leaf>>)),
             Called(w, "do_mkdir", id, leaf))

\* A mkdir() that does not ask is_writeable().
dir_mkdir_unchecked(w, id, leaf, hook_ok) ==
    LET made(m) == IF m.err # "" THEN m ELSE Ok(invalidate(m.w, id), None)
    IN  made(do_mkdir(w, id, leaf, hook_ok))

\* A mkdir() that does not invalidate the Container.
dir_mkdir_stale(w, id, leaf, hook_ok) ==
    IF ~is_writeable(w, id) THEN Raise(w, "FSWriteFailedError")
    ELSE do_mkdir(w, id, leaf, hook_ok)

\* FSDirectoryBase.mkdir
dir_mkdir(w, id, leaf, hook_ok) ==
    LET made(m) == IF m.err # "" THEN m ELSE Ok(invalidate(m.w, id), None)
    IN  IF ~is_writeable(w, id) THEN Raise(w, "FSWriteFailedError")
        ELSE made(do_mkdir(w, id, leaf, hook_ok))

\* The store after a rename of src to dst, with all that is below src.
Moved(d, src, dst) ==
    LET under(q) == Len(q) >= Len(src) /\ SubSeq(q, 1, Len(src)) = src
        to(q) == dst \o SubSeq(q, Len(src) + 1, Len(q))
        kept == {q \in DOMAIN d : ~under(q)}
        moved == {q \in DOMAIN d : under(q)}
    IN  [q \in kept \cup {to(x) : x \in moved} |->
            IF q \in kept THEN d[q]
            ELSE d[CHOOSE x \in moved : to(x) = q]]

\* FSDirectoryBase.do_rename, as a backend overrides it: it renames within
\* the native directory, or raises as the base does.
do_rename(w, id, source_leafname, dest_leafname, hook_ok) ==
    LET move(src, dst, w1) ==
            IF /\ hook_ok
               /\ src # <<>> /\ dst # <<>>
               /\ Len(dst) = Len(src)
               /\ dst[Len(dst)] \in Names
               /\ Kind(w.disk, src) # "none"
               /\ Kind(w.disk, dst) = "none"
            THEN Ok([w1 EXCEPT !.disk = Moved(@, src, dst)], None)
            ELSE Raise(w1, "FSRenameFailedError")
    IN  move(native_filename(join(<<w.dirs[id].dirname, source_leafname>>)),
             native_filename(join(<<w.dirs[id].dirname, dest_leafname>>)),
             Called(w, "do_rename", id, <<source_leafname, dest_leafname>>))

\* A rename() that invalidates whether or not do_rename() succeeded.
dir_rename_finally(w, id, source_leafname, dest_leafname, order, hook_ok) ==
    LET finally(m) == [m EXCEPT !.w = invalidate(m.w, id)]
        free(c) ==
            IF c.err # "" THEN c
            ELSE IF c.ret THEN Raise(c.w, "FSRenameFailedError")
            ELSE finally(do_rename(c.w, id, source_leafname, dest_leafname, hook_ok))
        found(source_fsfile) ==
            IF source_fsfile.err # "" THEN source_fsfile
            ELSE free(contains(source_fsfile.w, id, dest_leafname, order))
    IN  IF normalise_name(source_leafname) = normalise_name(dest_leafname)
        THEN Ok(w, None)
        ELSE IF ~is_writeable(w, id) THEN Raise(w, "FSRenameFailedError")
        ELSE found(getitem_name(w, id, source_leafname, order))

\* A rename() that does not look for the destination name.
dir_rename_overwriting(w, id, source_leafname, dest_leafname, order, hook_ok) ==
    LET renamed(m) == IF m.err # "" THEN m ELSE Ok(invalidate(m.w, id), None)
        found(source_fsfile) ==
            IF source_fsfile.err # "" THEN source_fsfile
            ELSE renamed(do_rename(source_fsfile.w, id, source_leafname,
                                   dest_leafname, hook_ok))
    IN  IF normalise_name(source_leafname) = normalise_name(dest_leafname)
        THEN Ok(w, None)
        ELSE IF ~is_writeable(w, id) THEN Raise(w, "FSRenameFailedError")
        ELSE found(getitem_name(w, id, source_leafname, order))

\* FSDirectoryBase.rename
dir_rename(w, id, source_leafname, dest_leafname, order, hook_ok) ==
    LET renamed(m) == IF m.err # "" THEN m ELSE Ok(invalidate(m.w, id), None)
        free(c) ==
            IF c.err # "" THEN c
            ELSE IF c.ret THEN Raise(c.w, "FSRenameFailedError")
            ELSE renamed(do_rename(c.w, id, source_leafname, dest_leafname, hook_ok))
        found(source_fsfile) ==
            IF source_fsfile.err # "" THEN source_fsfile
            ELSE free(contains(source_fsfile.w, id, dest_leafname, order))
    IN  IF normalise_name(source_leafname) = normalise_name(dest_leafname)
        THEN Ok(w, None)
        ELSE IF ~is_writeable(w, id) THEN Raise(w, "FSRenameFailedError")
        ELSE found(getitem_name(w, id, source_leafname, order))

-----------------------------------------------------------------------------
(* Facade (FSBase) *)

\* FSBase.fileinfo
fileinfo(w, filename, order) ==
    LET item(fsdir, leaf) ==
            IF fsdir.err # "" THEN fsdir
            ELSE getitem_name(fsdir.w, fsdir.ret, leaf, order)
        info(dl) ==
            IF dl[1] = rootname /\ dl[2] = <<>> THEN Ok(w, rootinfo)
            ELSE item(dir(w, dl[1], order), dl[2])
    IN  info(dirandleafname(filename))

\* FSBase.can_mkdir
fs_can_mkdir(w, name, order) ==
    LET ask(fsdir) ==
            IF fsdir.err # "" THEN fsdir ELSE dir_can_mkdir(fsdir.w, fsdir.ret)
    IN  IF name = None \/ ~supports_mkdir THEN Ok(w, supports_mkdir)
        ELSE ask(dir(w, name, order))

\* FSBase.can_delete
fs_can_delete(w, filename, order) ==
    LET ask(fsfile) ==
            IF fsfile.err # "" THEN fsfile
            ELSE file_can_delete(fsfile.w, fsfile.ret.filename, order)
    IN  IF filename = None \/ ~supports_delete THEN Ok(w, supports_delete)
        ELSE ask(fileinfo(w, filename, order))

\* FSBase.can_rename
fs_can_rename(w, source, dest, order) ==
    LET ask(src, dst, source_fsdir, dest_fsdir) ==
            IF dest_fsdir.err # "" THEN dest_fsdir
            ELSE IF src[1] = dst[1] \/ dst[1] = None
            THEN dir_can_rename(dest_fsdir.w, source_fsdir.ret, src[2], dst[2], order)
            ELSE Ok(dest_fsdir.w, FALSE)
        resolve(src, dst, source_fsdir) ==
            IF source_fsdir.err # "" THEN source_fsdir
            ELSE ask(src, dst, source_fsdir,
                     IF dest # None
                     THEN dir(source_fsdir.w, dst[1], order)
                     ELSE Ok(source_fsdir.w, NoDir))
        check(src, dst) == resolve(src, dst, dir(w, src[1], order))
    IN  IF ~supports_rename THEN Ok(w, FALSE)
        ELSE IF source = None THEN Ok(w, TRUE)
        ELSE check(dirandleafname(source),
                   IF dest # None THEN dirandleafname(dest) ELSE <<None, None>>)

\* A Facade mkdir() that does not ask supports_mkdir.
fs_mkdir_unflagged(w, name, order, hook_ok) ==
    LET make(fsdir) ==
            IF fsdir.err # "" THEN fsdir
            ELSE dir_mkdir(fsdir.w, fsdir.ret, leafname(name), hook_ok)
    IN  make(dir(w, name, order))

\* FSBase.mkdir
fs_mkdir(w, name, order, hook_ok) ==
    LET make(fsdir) ==
            IF fsdir.err # "" THEN fsdir
            ELSE dir_mkdir(fsdir.w, fsdir.ret, leafname(name), hook_ok)
    IN  IF ~supports_mkdir THEN Raise(w, "FSMkDirFailedError")
        ELSE make(dir(w, name, order))

\* FSBase.rename
fs_rename(w, source, dest, order, hook_ok) ==
    LET within(src, dst, fsdir) ==
            IF fsdir.err # "" THEN fsdir
            ELSE dir_rename(fsdir.w, fsdir.ret, src[2], dst[2], order, hook_ok)
        move(src, dst) ==
            IF normalise_name(src[1]) = normalise_name(dst[1])
            THEN within(src, dst, dir(w, src[1], order))
            ELSE Raise(w, "FSRenameFailedError")
    IN  IF ~supports_rename THEN Raise(w, "FSRenameFailedError")
        ELSE move(dirandleafname(source), dirandleafname(dest))

-----------------------------------------------------------------------------
(* Steps: one per public method *)

Flags == <<do_caching, supports_mkdir, supports_delete, supports_rename,
           writeable, deletable>>

\* The Containers a call leaves in reach: those the cache or the caller
\* refers to, and their parents.
RECURSIVE Reach(_, _)
Reach(ds, ids) ==
    LET more == ids \cup {ds[id].parent : id \in ids}
    IN  IF more = ids THEN ids ELSE Reach(ds, more)

Commit(r, keep) ==
    LET live == Reach(r.w.dirs, (DOMAIN dirs) \cup Range(r.w.cache) \cup keep)
    IN  /\ cached_dirs' = r.w.cache
        /\ dirs' = [id \in live |-> r.w.dirs[id]]
        /\ disk' = r.w.disk
        /\ UNCHANGED <<Flags, pathname, Native, Gui>>

\* The caller keeps the Container a dir() returns.
Returned(r) ==
    /\ do_caching \/ Cardinality(DOMAIN r.w.dirs) <= MaxHeld
    /\ Commit(r, IF r.err = "" THEN {r.ret} ELSE {})

Dir(p, order) == Returned(dir(World, p, order))

RootDir == Returned(rootdir(World))

InvalidateDir(p) == Commit(Ok(invalidate_dir(World, p), None), {})

FileInfo(p, order) == Commit(fileinfo(World, p, order), {})

FsCanMkdir(p, order) == Commit(fs_can_mkdir(World, p, order), {})

FsCanDelete(p, order) == Commit(fs_can_delete(World, p, order), {})

FsCanRename(s, d, order) == Commit(fs_can_rename(World, s, d, order), {})

FsMkdir(p, order, hook_ok) == Commit(fs_mkdir(World, p, order, hook_ok), {})

FsRename(s, d, order, hook_ok) == Commit(fs_rename(World, s, d, order, hook_ok), {})

Files(id, order) == Commit(files(World, id, order), {})

DirLen(id, order) == Commit(dir_len(World, id, order), {})

Contains(id, name, order) == Commit(contains(World, id, name, order), {})

GetItemName(id, name, order) == Commit(getitem_name(World, id, name, order), {})

GetItemIndex(id, index, order) == Commit(getitem_index(World, id, index, order), {})

Invalidate(id) == Commit(Ok(invalidate(World, id), None), {})

DirCanMkdir(id) == Commit(dir_can_mkdir(World, id), {})

DirCanDelete(id, leaf, order) == Commit(dir_can_delete(World, id, leaf, order), {})

DirCanRename(id, s, d, order) == Commit(dir_can_rename(World, id, s, d, order), {})

DirMkdir(id, leaf, hook_ok) == Commit(dir_mkdir(World, id, leaf, hook_ok), {})

DirRename(id, s, d, order, hook_ok) ==
    Commit(dir_rename(World, id, s, d, order, hook_ok), {})

FileIsDir(id, key) ==
    /\ key \in DOMAIN dirs[id].files
    /\ Commit(file_isdir(World, id, key), {})

FileRead(id, key) ==
    /\ key \in DOMAIN dirs[id].files
    /\ Commit(file_read(World, dirs[id].files[key].filename, TRUE), {})

FileCanDelete(id, key, order) ==
    /\ key \in DOMAIN dirs[id].files
    /\ Commit(file_can_delete(World, dirs[id].files[key].filename, order), {})

FileDelete(id, key, order, hook_ok) ==
    /\ key \in DOMAIN dirs[id].files
    /\ Commit(file_delete(World, id, key, order, hook_ok), {})

\* The store at the start: a directory A and a file b under the anchor.
InitDisk == (<<<<"A">>>> :> "dir") @@ (<<<<"b">>>> :> "file")

\* The backends a run starts with: the Filesystem subclass's flags, and the
\* answers of its is_writeable and can_delete overrides.
Backend(caching, mk, del, ren, wr, dl) ==
    [do_caching |-> caching, supports_mkdir |-> mk, supports_delete |-> del,
     supports_rename |-> ren, writeable |-> wr, deletable |-> dl]

Everywhere == {<<>>, <<<<"A">>>>, <<<<"a">>>>}

Backends ==
    { Backend(TRUE, FALSE, FALSE, FALSE, {}, FALSE),          \* as shipped
      Backend(TRUE, TRUE, TRUE, TRUE, Everywhere, TRUE),      \* read-write
      Backend(FALSE, TRUE, FALSE, TRUE, Everywhere, TRUE),    \* no cache, no delete
      Backend(TRUE, FALSE, FALSE, FALSE, Everywhere, TRUE),   \* flags off, store writeable
      Backend(TRUE, TRUE, TRUE, TRUE, {}, TRUE),              \* flags on, store read-only
      Backend(TRUE, TRUE, TRUE, TRUE, {<<>>}, FALSE),         \* root only, base can_delete
      Backend(TRUE, TRUE, TRUE, TRUE, {<< <<"A">> >>}, TRUE) } \* A only

Init ==
    /\ \E b \in Backends :
          /\ do_caching = b.do_caching
          /\ supports_mkdir = b.supports_mkdir
          /\ supports_delete = b.supports_delete
          /\ supports_rename = b.supports_rename
          /\ writeable = b.writeable
          /\ deletable = b.deletable
    /\ disk = InitDisk
    /\ cached_dirs = <<>>
    /\ dirs = <<>>
    /\ pathname = <<>>
    /\ nativefile = NativeEntry
    /\ inode = Missing
    /\ oscalls = <<>>
    /\ open_windows = <<>>
    /\ frames = <<>>

\* The Containers the caller asked for by name.
Held == {id \in DOMAIN dirs : dirs[id].dirname \in DirArgs}

\* The Containers of the root directory among them.
Shown == {id \in Held : dirs[id].dirname = rootname}

\* The orders of os.listdir that can tell: both when two names of a
\* directory share a key.
Clash(d) ==
    \E p \in DOMAIN d, q \in DOMAIN d :
        /\ p # q /\ Len(p) = Len(q)
        /\ SubSeq(p, 1, Len(p) - 1) = SubSeq(q, 1, Len(q) - 1)
        /\ normalise_name(p[Len(p)]) = normalise_name(q[Len(q)])
Orders == IF Clash(disk) THEN ListOrders ELSE {Ascending}

Next ==
    \/ \E p \in DirArgs, order \in Orders : Dir(p, order)
    \/ RootDir
    \/ \E p \in {Str("/"), Str("/A")} : InvalidateDir(p)
    \/ \E order \in Orders : FileInfo(Str("/b"), order)
    \/ \E p \in {None, Str("/A")}, order \in Orders : FsCanMkdir(p, order)
    \/ \E p \in {None, Str("/b")}, order \in Orders : FsCanDelete(p, order)
    \/ \E a \in {<<None, None>>, <<Str("/b"), None>>, <<Str("/b"), Str("/a")>>},
          order \in Orders : FsCanRename(a[1], a[2], order)
    \/ \E order \in Orders, hook_ok \in BOOLEAN : FsMkdir(Str("/A"), order, hook_ok)
    \/ \E a \in {<<Str("/b"), Str("/a")>>, <<Str("/A"), Str("/a")>>},
          order \in Orders, hook_ok \in BOOLEAN : FsRename(a[1], a[2], order, hook_ok)
    \/ \E id \in Held, order \in Orders : Files(id, order)
    \/ \E id \in Held, order \in Orders : DirLen(id, order)
    \/ \E id \in Held, order \in Orders : Contains(id, Str("a"), order)
    \/ \E id \in Held, order \in Orders : GetItemName(id, Str("b"), order)
    \/ \E id \in Held, order \in Orders : GetItemIndex(id, 0, order)
    \/ \E id \in Held : Invalidate(id)
    \/ \E id \in Held : DirCanMkdir(id)
    \/ \E id \in Held, order \in Orders : DirCanDelete(id, Str("b"), order)
    \/ \E id \in Held, order \in Orders : DirCanRename(id, Str("b"), Str("a"), order)
    \/ \E id \in Held, hook_ok \in BOOLEAN : DirMkdir(id, Str("a"), hook_ok)
    \/ \E id \in Held, order \in Orders, hook_ok \in BOOLEAN :
          DirRename(id, Str("b"), Str("a"), order, hook_ok)
    \/ \E id \in Shown : FileIsDir(id, Str("a"))
    \/ \E id \in Shown : FileRead(id, Str("b"))
    \/ \E id \in Held, order \in Orders : FileCanDelete(id, Str("b"), order)
    \/ \E id \in Held, key \in Keys, order \in Orders, hook_ok \in BOOLEAN :
          FileDelete(id, key, order, hook_ok)

Spec == Init /\ [][Next]_vars

-----------------------------------------------------------------------------
(* The PathModel on its own: the pure functions of FSBase applied to path *)
(* strings, over a Filesystem that is left alone.                         *)

\* The characters of the strings: the separator, and a letter of each case.
PathAlphabet == {dirsep, "A", "b"}
PathStrings == UNION {[1..n -> PathAlphabet] : n \in 0..MaxPath}

\* Leafnames: non-empty, without a separator.
PathLeaves == {<<"A">>, <<"b">>, <<"b", "A">>}

PathInit ==
    /\ pathname \in PathStrings
    /\ do_caching \in BOOLEAN
    /\ supports_mkdir = FALSE
    /\ supports_delete = FALSE
    /\ supports_rename = FALSE
    /\ writeable = {}
    /\ deletable = FALSE
    /\ disk = InitDisk
    /\ cached_dirs = <<>>
    /\ dirs = <<>>
    /\ nativefile = NativeEntry
    /\ inode = Missing
    /\ oscalls = <<>>
    /\ open_windows = <<>>
    /\ frames = <<>>

Rest == <<Flags, disk, cached_dirs, dirs, Native, Gui>>

\* The result of a call becomes the string the next call is applied to.
Join(leaf) ==
    /\ Len(join(<<pathname, leaf>>)) <= MaxPath
    /\ pathname' = join(<<pathname, leaf>>)
    /\ UNCHANGED Rest

JoinSplit ==
    /\ pathname' = join(split(pathname))
    /\ UNCHANGED Rest

DirName ==
    /\ pathname' = dirname(pathname)
    /\ UNCHANGED Rest

LeafName ==
    /\ pathname' = leafname(pathname)
    /\ UNCHANGED Rest

NormaliseName ==
    /\ pathname' = normalise_name(pathname)
    /\ UNCHANGED Rest

PathNext ==
    \/ \E leaf \in PathLeaves : Join(leaf)
    \/ JoinSplit
    \/ DirName
    \/ LeafName
    \/ NormaliseName

PathSpec == PathInit /\ [][PathNext]_vars

-----------------------------------------------------------------------------
(* The queries of one native Entry while its file changes underneath *)

StatInit ==
    /\ nativefile = NativeEntry
    /\ inode \in Inodes \cup {Missing}
    /\ oscalls = <<>>
    /\ open_windows = <<>>
    /\ frames = <<>>
    /\ do_caching = TRUE
    /\ supports_mkdir = FALSE
    /\ supports_delete = FALSE
    /\ supports_rename = FALSE
    /\ writeable = {}
    /\ deletable = FALSE
    /\ disk = InitDisk
    /\ cached_dirs = <<>>
    /\ dirs = <<>>
    /\ pathname = <<>>

Layer == <<Flags, disk, cached_dirs, dirs, pathname>>

\* A method of the Entry ran: the Entry keeps what it memoised.
Ran(r) ==
    /\ Len(r.log) <= MaxCalls
    /\ nativefile' = r.e
    /\ oscalls' = r.log
    /\ UNCHANGED <<inode, Layer, Gui>>

IsDir == Ran(native_isdir(nativefile, inode, oscalls))
Size == Ran(native_size(nativefile, inode, oscalls))
EpochTime == Ran(native_epochtime(nativefile, inode, oscalls))

\* Another program writes, removes or replaces the native file.
Change(node) ==
    /\ node # inode
    /\ inode' = node
    /\ UNCHANGED <<nativefile, oscalls, Layer, Gui>>

StatNext ==
    \/ IsDir
    \/ Size
    \/ EpochTime
    \/ \E node \in Inodes \cup {Missing} : Change(node)

StatSpec == StatInit /\ [][StatNext]_vars

-----------------------------------------------------------------------------
(* The explorer windows of the demo application *)

\* DemoFrame.__init__: a registry and the first frame, on the root.
ExplorerInit ==
    /\ open_windows = (fsfile_key(rootname) :> 1)
    /\ frames = (1 :> [dirname |-> rootname])
    /\ nativefile = NativeEntry
    /\ inode = Missing
    /\ oscalls = <<>>
    /\ do_caching = TRUE
    /\ supports_mkdir = FALSE
    /\ supports_delete = FALSE
    /\ supports_rename = FALSE
    /\ writeable = {}
    /\ deletable = FALSE
    /\ disk = InitDisk
    /\ cached_dirs = <<>>
    /\ dirs = <<>>
    /\ pathname = <<>>

\* The registry and the frames after a call.
Shows(x) ==
    /\ Cardinality(DOMAIN x.frames) <= MaxFrames
    /\ open_windows' = x.open_windows
    /\ frames' = x.frames
    /\ UNCHANGED <<Layer, Native>>

OpenWindow(name) == Shows(open_window(Desk, name))
OpenRoot == Shows(OnOpen(Desk))
OpenDir(window, target, close) == Shows(OnFileOpenDir(Desk, window, target, close))
Refresh(window) == Shows(RefreshDirectory(Desk, window))
CloseWindow(window) == Shows(on_close(Desk, window))

ExplorerNext ==
    \/ \E name \in ExplorerDirs : OpenWindow(name)
    \/ OpenRoot
    \/ \E window \in DOMAIN frames, close \in BOOLEAN :
          \E target \in Subdirs(frames[window].dirname) : OpenDir(window, target, close)
    \/ \E window \in DOMAIN frames : Refresh(window)
    \/ \E window \in DOMAIN frames : CloseWindow(window)

ExplorerSpec == ExplorerInit /\ [][ExplorerNext]_vars

-----------------------------------------------------------------------------
(* Properties *)

Ids == DOMAIN dirs
EntryRefs == {x \in Ids \X Keys : x[2] \in DOMAIN dirs[x[1]].files}
Fresh(w) == [w EXCEPT !.calls = <<>>]
MutationHooks(w) ==
    SelectSeq(w.calls, LAMBDA c : c.hook \in {"do_mkdir", "do_rename", "do_delete"})
LeafnamesOf(listing) == {leafname(listing[i].filename) : i \in DOMAIN listing}

\* Every Container populated in the state is populated in world w.
KeepsPopulated(w) == \A id \in Ids : dirs[id].populated => w.dirs[id].populated
\* Every Container populated in the state has the same Entries in world w.
KeepsEntries(w) ==
    \A id \in Ids : dirs[id].populated =>
        /\ w.dirs[id].populated
        /\ DOMAIN w.dirs[id].files = DOMAIN dirs[id].files
        /\ \A k \in DOMAIN dirs[id].files :
              w.dirs[id].files[k].filename = dirs[id].files[k].filename
\* Every Container unpopulated in the state is unpopulated in world w.
KeepsUnpopulated(w) == \A id \in Ids : ~dirs[id].populated => ~w.dirs[id].populated

\* C1: with caching, a second dir(p) with no invalidation between returns the
\* identical Container and is a cache hit: get_dir is not invoked, nothing changes.
C1_SecondDirIsCacheHit ==
    do_caching =>
        \A p \in Paths, order \in ListOrders :
            LET r1 == dir(World, p, order)
                r2 == dir(Fresh(r1.w), p, order)
            IN  r1.err = "" =>
                    /\ r2.err = "" /\ r2.ret = r1.ret
                    /\ Hooks(r2.w, "get_dir") = <<>>
                    /\ r2.w = Fresh(r1.w)

\* C1 witness: a directory below the root has been resolved and sits in the
\* cache, so the next dir() of it is the second call.
C1_Witness ==
    /\ do_caching
    /\ normalise_name(Str("/A")) \in DOMAIN cached_dirs
    /\ dir(World, Str("/A"), Ascending).ret = cached_dirs[normalise_name(Str("/A"))]

\* C2: after a delete() that passed can_delete() and whose do_delete hook
\* succeeded, the Container that lists the Entry is Unpopulated, and its
\* next listing calls get_filelist again and does not show the Entry.
C2_DeleteInvalidatesParent ==
    \A x \in EntryRefs :
        LET id == x[1]
            e == dirs[id].files[x[2]]
            r == file_delete(World, id, x[2], Ascending, TRUE)
            l == files(Fresh(r.w), id, Ascending)
        IN  (file_can_delete(World, e.filename, Ascending).ret = TRUE /\ r.w.disk # disk) =>
                /\ ~r.w.dirs[id].populated
                /\ Len(Hooks(l.w, "get_filelist")) = 1
                /\ leafname(e.filename) \notin LeafnamesOf(l.ret)

\* C3: Facade mkdir(path) with supports_mkdir set invokes do_mkdir on the
\* Container of dirname(path) with leafname(path), and leaves that Container
\* Unpopulated.
C3_MkdirTargetsParent ==
    \A p \in Paths, hook_ok \in BOOLEAN :
        LET r == fs_mkdir(World, p, Ascending, hook_ok)
            m == MutationHooks(r.w)
        IN  supports_mkdir =>
                /\ \A i \in DOMAIN m :
                      /\ m[i].hook = "do_mkdir"
                      /\ native_filename(r.w.dirs[m[i].on].dirname)
                            = native_filename(dirname(p))
                      /\ m[i].arg = leafname(p)
                /\ r.err = "" =>
                      \A id \in DOMAIN r.w.dirs :
                          native_filename(r.w.dirs[id].dirname)
                              = native_filename(dirname(p))
                          => ~r.w.dirs[id].populated

\* The flag and the writeability a mutation hook stands under.
HookGated(r) ==
    \A i \in DOMAIN r.w.calls :
        LET c == r.w.calls[i]
        IN  /\ c.hook = "do_mkdir" => supports_mkdir /\ is_writeable(r.w, c.on)
            /\ c.hook = "do_rename" => supports_rename /\ is_writeable(r.w, c.on)
            /\ c.hook = "do_delete" =>
                  supports_delete
                  /\ native_filename(dirname(c.arg)) \in writeable

\* Every key of the cache maps in world w to the Container it maps to in
\* the state.
KeepsCache(w) ==
    \A k \in DOMAIN cached_dirs : k \in DOMAIN w.cache /\ w.cache[k] = cached_dirs[k]

\* The properties asked of the result r of a call made in the current state.
Holds(property, r) ==
    CASE property = "hook gated" -> HookGated(r)
      [] property = "raising keeps populated" -> (r.err # "" => KeepsPopulated(r.w))
      [] property = "keeps populated" -> KeepsPopulated(r.w)
      [] property = "returns a boolean" -> (r.err = "" /\ r.ret \in BOOLEAN)
      [] property = "populates nothing" ->
            (KeepsUnpopulated(r.w) /\ Hooks(r.w, "get_filelist") = <<>>)
      [] property = "keeps entries" ->
            (KeepsEntries(r.w) /\ MutationHooks(r.w) = <<>>)
      [] property = "changes nothing" -> r.w = World
      [] property = "keeps cache" -> KeepsCache(r.w)

\* The property holds of the result of every mutating call, whatever its arguments
\* and whether or not the backend's hook succeeds.
AllMutations(property) ==
    /\ \A n \in Paths, order \in Orders, hook_ok \in BOOLEAN :
          Holds(property, fs_mkdir(World, n, order, hook_ok))
    /\ \A id \in Ids, leaf \in Leaves, hook_ok \in BOOLEAN :
          Holds(property, dir_mkdir(World, id, leaf, hook_ok))
    /\ \A s \in Paths, d \in Paths, order \in Orders, hook_ok \in BOOLEAN :
          Holds(property, fs_rename(World, s, d, order, hook_ok))
    /\ \A id \in Ids, s \in Leaves, d \in Leaves, order \in Orders,
          hook_ok \in BOOLEAN : Holds(property, dir_rename(World, id, s, d, order, hook_ok))
    /\ \A x \in EntryRefs, order \in Orders, hook_ok \in BOOLEAN :
          Holds(property, file_delete(World, x[1], x[2], order, hook_ok))

\* C4: through every entry point, do_mkdir, do_rename and do_delete are
\* invoked only when the Filesystem's flag for the mutation is set and the
\* target Container is writeable.
C4_HooksOnlyWhenGated == AllMutations("hook gated")

\* A call that raised without reaching a mutation hook.
StoppedAtGate(r) == r.err # "" /\ MutationHooks(r.w) = <<>>

\* C5: a mutating operation that fails one of its gate checks (flag off,
\* cross-directory rename, Container not writeable, missing source,
\* destination collision, can_delete false) raises before any mutation hook
\* is invoked.
C5_GateFailsBeforeHook ==
    /\ \A p \in Paths, order \in Orders, hook_ok \in BOOLEAN :
          LET target == dir(World, p, order)
          IN  (\/ ~supports_mkdir
               \/ target.err # ""
               \/ ~is_writeable(target.w, target.ret))
                  => StoppedAtGate(fs_mkdir(World, p, order, hook_ok))
    /\ \A id \in Ids, leaf \in Leaves, hook_ok \in BOOLEAN :
          ~is_writeable(World, id) => StoppedAtGate(dir_mkdir(World, id, leaf, hook_ok))
    /\ \A s \in Paths, d \in Paths, order \in Orders, hook_ok \in BOOLEAN :
          (\/ ~supports_rename
           \/ normalise_name(dirname(s)) # normalise_name(dirname(d)))
              => StoppedAtGate(fs_rename(World, s, d, order, hook_ok))
    /\ \A id \in Ids, s \in Leaves, d \in Leaves, order \in Orders,
          hook_ok \in BOOLEAN :
          LET has_s == contains(World, id, s, order)
              has_d == contains(World, id, d, order)
          IN  (/\ normalise_name(s) # normalise_name(d)
               /\ \/ ~is_writeable(World, id)
                  \/ has_s.err # "" \/ ~has_s.ret
                  \/ has_d.ret = TRUE)
                  => StoppedAtGate(dir_rename(World, id, s, d, order, hook_ok))
    /\ \A x \in EntryRefs, order \in Orders, hook_ok \in BOOLEAN :
          LET gate == file_can_delete(World, dirs[x[1]].files[x[2]].filename, order)
          IN  gate.ret # TRUE
                  => StoppedAtGate(file_delete(World, x[1], x[2], order, hook_ok))

\* C5 witness: a Populated, writeable Container on which a rename collides
\* with an existing name, under a Filesystem whose hooks would succeed.
C5_Witness ==
    \E id \in Ids :
        /\ dirs[id].populated /\ is_writeable(World, id)
        /\ Str("b") \in DOMAIN dirs[id].files
        /\ Str("a") \in DOMAIN dirs[id].files
        /\ dir_rename(World, id, Str("b"), Str("A"), Ascending, TRUE).err
              = "FSRenameFailedError"
        /\ Hooks(dir_rename(World, id, Str("b"), Str("A"), Ascending, TRUE).w,
                 "do_rename") = <<>>

\* The property holds of the result of every gating predicate that takes a path or a
\* leafname.
PathGates(property) ==
    /\ \A n \in Paths, order \in Orders :
          /\ Holds(property, fs_can_mkdir(World, n, order))
          /\ Holds(property, fs_can_delete(World, n, order))
    /\ \A s \in Paths, d \in Paths \cup {None}, order \in Orders :
          Holds(property, fs_can_rename(World, s, d, order))
    /\ \A id \in Ids, leaf \in Leaves, order \in Orders :
          Holds(property, dir_can_delete(World, id, leaf, order))
    /\ \A id \in Ids, s \in Leaves, d \in Leaves \cup {None}, order \in Orders :
          Holds(property, dir_can_rename(World, id, s, d, order))
    /\ \A x \in EntryRefs, order \in Orders :
          Holds(property, file_can_delete(World, dirs[x[1]].files[x[2]].filename, order))

\* The property holds of the result of every gating predicate that takes none.
PlainGates(property) ==
    /\ Holds(property, fs_can_mkdir(World, None, Ascending))
    /\ Holds(property, fs_can_delete(World, None, Ascending))
    /\ Holds(property, fs_can_rename(World, None, None, Ascending))
    /\ \A id \in Ids : Holds(property, dir_can_mkdir(World, id))

\* The property holds of the result of every query of a Container or of the cache.
AllQueries(property) ==
    /\ \A n \in Paths, order \in Orders :
          /\ Holds(property, dir(World, n, order))
          /\ Holds(property, fileinfo(World, n, order))
    /\ \A id \in Ids, order \in Orders :
          /\ Holds(property, files(World, id, order))
          /\ Holds(property, dir_len(World, id, order))
          /\ \A name \in Leaves :
                /\ Holds(property, contains(World, id, name, order))
                /\ Holds(property, getitem_name(World, id, name, order))
          /\ \A index \in {-1, 0, 1} : Holds(property, getitem_index(World, id, index, order))
    /\ \A x \in EntryRefs : Holds(property, file_isdir(World, x[1], x[2]))

\* C6: a mutating operation that ends by raising leaves every Populated
\* Container Populated, and so does every query and every gating predicate:
\* only invalidate(), invalidate_dir() and a completed mutation unpopulate.
C6_FailureKeepsPopulated ==
    /\ AllMutations("raising keeps populated")
    /\ AllQueries("keeps populated")
    /\ PathGates("keeps populated")
    /\ PlainGates("keeps populated")

\* C6 witness: a Populated, writeable Container whose mkdir fails in the
\* backend's hook.
C6_Witness ==
    \E id \in Ids :
        /\ dirs[id].populated /\ is_writeable(World, id)
        /\ dir_mkdir(World, id, Str("a"), FALSE).err = "FSWriteFailedError"
        /\ Hooks(dir_mkdir(World, id, Str("a"), FALSE).w, "do_mkdir") # <<>>

\* C7: no gating predicate ever raises: each returns a boolean.
C7_GatesNeverRaise ==
    /\ PathGates("returns a boolean")
    /\ PlainGates("returns a boolean")

C9_RelistAfterInvalidateDir ==
    do_caching =>
        \A n \in Paths, order \in Orders :
            LET key == normalise_name(n)
                id == cached_dirs[key]
                l == files(Fresh(invalidate_dir(World, n)), id, order)
            IN  (key \in DOMAIN cached_dirs /\ dirs[id].populated) =>
                    /\ Len(Hooks(l.w, "get_filelist")) = 1
                    /\ l.err = "" =>
                          LeafnamesOf(l.ret)
                              = Members(disk, native_filename(dirs[id].dirname))

\* No query of Container id invokes get_filelist, and its listing is the
\* sorted sequence of the Entries it holds.
QueriesServedFromSnapshot(id) ==
    \A order \in ListOrders :
        /\ Hooks(files(World, id, order).w, "get_filelist") = <<>>
        /\ Hooks(dir_len(World, id, order).w, "get_filelist") = <<>>
        /\ \A name \in Leaves :
              /\ Hooks(contains(World, id, name, order).w, "get_filelist") = <<>>
              /\ Hooks(getitem_name(World, id, name, order).w, "get_filelist") = <<>>
        /\ \A index \in {-1, 0, 1} :
              Hooks(getitem_index(World, id, index, order).w, "get_filelist") = <<>>
        /\ files(World, id, order).ret = Sorted(Range(dirs[id].files))
        /\ files(World, id, order).w.dirs = dirs

\* A Container that stays Populated over a step keeps its Entries.
SnapshotStable ==
    \A id \in (DOMAIN dirs) \cap (DOMAIN dirs') :
        (dirs[id].populated /\ dirs'[id].populated) =>
            /\ DOMAIN dirs'[id].files = DOMAIN dirs[id].files
            /\ \A k \in DOMAIN dirs[id].files :
                  dirs'[id].files[k].filename = dirs[id].files[k].filename

\* C10, as claimed: once get_filelist has been invoked for a Container, no
\* query invokes it again before the next invalidation.
C10_FetchedAtMostOnce ==
    \A id \in Ids : dirs[id].fetched => QueriesServedFromSnapshot(id)

\* C10, amended: once a call of get_filelist has returned (the Container is
\* Populated), no query invokes it again before the next invalidation, and
\* every listing is the same sequence of the same Entries, whatever the
\* backend holds by then.
C10_PopulatedAtMostOnce ==
    /\ [](\A id \in Ids : dirs[id].populated => QueriesServedFromSnapshot(id))
    /\ [][SnapshotStable]_vars

\* C10 witness: a Populated Container that lists a name the backend no
\* longer holds.
C10_Witness ==
    \E id \in Ids :
        /\ dirs[id].populated
        /\ \E k \in DOMAIN dirs[id].files :
              Kind(disk, native_filename(dirs[id].files[k].filename)) = "none"

\* The names dir(name) resolves: name and, while the code recurses, the
\* dirname of the last.
HasParent(name) == name # dirname(name) /\ name # <<>>
RECURSIVE Ancestry(_)
Ancestry(name) ==
    IF HasParent(name) THEN {name} \cup Ancestry(dirname(name)) ELSE {name}

\* C11: with caching, when dir(p) returns, the cache holds a Container for
\* p and for every ancestor on its dirname chain, no Container was
\* constructed before its parent, and the parent of every Container on the
\* chain that has a dirname to resolve is the cached Container of that
\* dirname.
C11_AncestorsCachedAndWired ==
    do_caching =>
        \A p \in Paths, order \in Orders :
            LET r == dir(World, p, order)
                made == Hooks(r.w, "get_dir")
            IN  r.err = "" =>
                    \A q \in Ancestry(p) :
                        /\ normalise_name(q) \in DOMAIN r.w.cache
                        /\ HasParent(q) =>
                              /\ normalise_name(dirname(q)) \in DOMAIN r.w.cache
                              /\ r.w.dirs[r.w.cache[normalise_name(q)]].parent
                                    = r.w.cache[normalise_name(dirname(q))]
                              /\ \A i \in DOMAIN made, j \in DOMAIN made :
                                    (made[i].arg = dirname(q) /\ made[j].arg = q)
                                        => i < j

\* C12: invalidate_dir(d) leaves the cache's keys and the Container under
\* each key as they were and touches no other Container; it resets the
\* population of d's cached Container only, and changes nothing at all when
\* d is not cached or caching is disabled.
C12_InvalidateDirKeepsCache ==
    \A n \in Paths :
        LET w == invalidate_dir(World, n)
            key == normalise_name(n)
            hit == do_caching /\ key \in DOMAIN cached_dirs
        IN  /\ w.cache = cached_dirs
            /\ DOMAIN w.dirs = Ids
            /\ w.disk = disk /\ w.calls = <<>>
            /\ \A id \in Ids :
                  IF hit /\ id = cached_dirs[key]
                  THEN /\ ~w.dirs[id].populated
                       /\ w.dirs[id].dirname = dirs[id].dirname
                       /\ w.dirs[id].parent = dirs[id].parent
                  ELSE w.dirs[id] = dirs[id]
            /\ ~hit => w = World

\* C12 witness: a cached, Populated Container that invalidate_dir() of its
\* name leaves Unpopulated under the same key.
C12_Witness ==
    /\ do_caching
    /\ normalise_name(Str("/A")) \in DOMAIN cached_dirs
    /\ dirs[cached_dirs[normalise_name(Str("/A"))]].populated
    /\ dirs[cached_dirs[normalise_name(Str("/A"))]].files # <<>>
    /\ ~invalidate_dir(World, Str("/A")).dirs[cached_dirs[normalise_name(Str("/A"))]].populated
    /\ invalidate_dir(World, Str("/A")).cache = cached_dirs

\* C13: with supports_rename set, Facade rename(src, dst) of two paths with
\* the same normalised directory and the same normalised leafname returns
\* without error, invokes no do_rename, and leaves every Container's
\* population state as it was.
C13_SameNameRenameIsNoOp ==
    supports_rename =>
        \A s \in Paths, d \in Paths, order \in Orders, hook_ok \in BOOLEAN :
            LET r == fs_rename(World, s, d, order, hook_ok)
            IN  (/\ normalise_name(dirname(s)) = normalise_name(dirname(d))
                 /\ normalise_name(leafname(s)) = normalise_name(leafname(d)))
                    => /\ r.err = ""
                       /\ Hooks(r.w, "do_rename") = <<>>
                       /\ \A id \in Ids :
                             r.w.dirs[id].populated = dirs[id].populated

\* Container id is Populated and writeable and lists both names, under
\* different keys.
Collides(id, s, d) ==
    /\ dirs[id].populated /\ is_writeable(World, id)
    /\ normalise_name(s) # normalise_name(d)
    /\ normalise_name(s) \in DOMAIN dirs[id].files
    /\ normalise_name(d) \in DOMAIN dirs[id].files

\* The call failed with RenameFailed before any mutation hook and left
\* Container id as it was.
RefusedRename(r, id) ==
    /\ r.err = "FSRenameFailedError"
    /\ MutationHooks(r.w) = <<>>
    /\ r.w.dirs[id] = dirs[id]

\* C14: a rename of a listed source to a different name that is listed in
\* the same writeable, Populated Container fails with RenameFailed, invokes
\* no do_rename, and leaves the Container Populated with the Entries it
\* had; at Container level, and at Facade level on the cached Container.
C14_CollisionKeepsListing ==
    /\ \A id \in Ids, s \in Leaves, d \in Leaves, order \in Orders,
          hook_ok \in BOOLEAN :
          Collides(id, s, d)
              => RefusedRename(dir_rename(World, id, s, d, order, hook_ok), id)
    /\ do_caching =>
          \A s \in Paths, d \in Paths, order \in Orders, hook_ok \in BOOLEAN :
              LET key == normalise_name(dirname(s))
              IN  (/\ key = normalise_name(dirname(d))
                   /\ key \in DOMAIN cached_dirs
                   /\ Collides(cached_dirs[key], leafname(s), leafname(d)))
                      => RefusedRename(fs_rename(World, s, d, order, hook_ok),
                                       cached_dirs[key])

\* C14 witness: the cached root Container is Populated and writeable and
\* lists 'b' and 'A', and rename('/b', '/A') is refused while a backend
\* whose hook would succeed stands behind it.
C14_Witness ==
    /\ do_caching /\ supports_rename
    /\ Str("") \in DOMAIN cached_dirs
    /\ Collides(cached_dirs[Str("")], Str("b"), Str("A"))
    /\ leafname(dirs[cached_dirs[Str("")]].files[Str("a")].filename) = Str("A")
    /\ RefusedRename(fs_rename(World, Str("/b"), Str("/A"), Ascending, TRUE),
                     cached_dirs[Str("")])

\* C15: with supports_mkdir false, Facade mkdir(path) fails with
\* MkDirFailed for every path, invokes no backend hook (no get_dir, no
\* get_filelist, no do_mkdir) and leaves the cache and every Container
\* as they were.
C15_MkdirUnsupportedTouchesNothing ==
    ~supports_mkdir =>
        \A p \in Paths, order \in Orders, hook_ok \in BOOLEAN :
            LET r == fs_mkdir(World, p, order, hook_ok)
            IN  /\ r.err = "FSMkDirFailedError"
                /\ r.w.calls = <<>>
                /\ r.w.cache = cached_dirs
                /\ r.w = World

\* C15 witness: supports_mkdir is false over a store whose directories are
\* writeable and whose do_mkdir would succeed, and mkdir('/A') is refused.
C15_Witness ==
    /\ ~supports_mkdir
    /\ native_filename(Str("/A")) \in writeable
    /\ Kind(disk, native_filename(Str("/A"))) = "dir"
    /\ Kind(disk, native_filename(Str("/A/A"))) = "none"
    /\ cached_dirs # <<>>
    /\ fs_mkdir(World, Str("/A"), Ascending, TRUE).err = "FSMkDirFailedError"
    /\ fs_mkdir(World, Str("/A"), Ascending, TRUE).w.calls = <<>>

\* The call returned False.
Denied(r) == r.err = "" /\ r.ret = FALSE

\* C16: with supports_delete false, can_delete answers False for every
\* file at Facade, Container and Entry level, and Entry.delete() fails with
\* DeleteFailed without invoking do_delete.
C16_DeleteUnsupported ==
    ~supports_delete =>
        /\ \A p \in Paths \cup {None}, order \in Orders :
              Denied(fs_can_delete(World, p, order))
        /\ \A id \in Ids, leaf \in Leaves, order \in Orders :
              Denied(dir_can_delete(World, id, leaf, order))
        /\ \A x \in EntryRefs, order \in Orders, hook_ok \in BOOLEAN :
              LET r == file_delete(World, x[1], x[2], order, hook_ok)
              IN  /\ Denied(file_can_delete(World, dirs[x[1]].files[x[2]].filename,
                                            order))
                  /\ r.err = "FSDeleteFailedError"
                  /\ Hooks(r.w, "do_delete") = <<>>
                  /\ r.w.disk = disk

\* C16 witness: supports_delete is false, a Populated Container of a
\* writeable directory lists 'b', the backend's own can_delete would allow
\* the deletion, and delete() of the Entry is refused.
C16_Witness ==
    /\ ~supports_delete /\ deletable
    /\ \E id \in Ids :
          /\ dirs[id].populated /\ is_writeable(World, id)
          /\ Str("b") \in DOMAIN dirs[id].files
          /\ Kind(disk, native_filename(dirs[id].files[Str("b")].filename)) = "file"
          /\ file_delete(World, id, Str("b"), Ascending, TRUE).err
                = "FSDeleteFailedError"

\* C17: a rename request that fails because the capability flag is off,
\* the move crosses directories, the Container is not writeable, the
\* source is not listed or the destination is listed already, fails with
\* RenameFailed, at Facade and at Container level.
C17_RenameFailsAsRenameFailed ==
    /\ \A s \in Paths, d \in Paths, order \in Orders, hook_ok \in BOOLEAN :
          (\/ ~supports_rename
           \/ normalise_name(dirname(s)) # normalise_name(dirname(d)))
              => fs_rename(World, s, d, order, hook_ok).err = "FSRenameFailedError"
    /\ \A id \in Ids, s \in Leaves, d \in Leaves, order \in Orders,
          hook_ok \in BOOLEAN :
          LET has_s == contains(World, id, s, order)
              has_d == contains(World, id, d, order)
          IN  (/\ normalise_name(s) # normalise_name(d)
               /\ \/ ~is_writeable(World, id)
                  \/ has_s.err = "" /\ ~has_s.ret
                  \/ has_d.err = "" /\ has_d.ret)
                  => dir_rename(World, id, s, d, order, hook_ok).err
                        = "FSRenameFailedError"

\* C18: on a base Entry, whose backend overrides no read hook, open() and
\* read() fail with ReadFailed, one of the FSError kinds.
C18_BaseReadFailsAsReadFailed ==
    \A p \in Paths :
        /\ FSFileBase_open(World, p).err = "FSReadFailedError"
        /\ file_read(World, p, FALSE).err = "FSReadFailedError"
        /\ FSFileBase_open(World, p).err \in FSError
        /\ file_read(World, p, FALSE).err \in FSError

\* A store in which the native directory np holds the member set M.
Holding(np, M) ==
    LET above == {SubSeq(np, 1, k) : k \in 1..Len(np)}
    IN  [q \in above \cup {Append(np, n) : n \in M} |->
            IF q \in above THEN "dir" ELSE "file"]

\* The listing of Container id when its directory holds M and the host
\* reports the members in the given order.
ListingOf(id, M, order) ==
    files(invalidate([World EXCEPT
                         !.disk = Holding(native_filename(dirs[id].dirname), M)],
                     id),
          id, order)

\* A listing's leafnames increase strictly, by code point.
Ascends(l) ==
    l.err = "" =>
        \A i \in DOMAIN l.ret, j \in DOMAIN l.ret :
            i < j => StrLess(leafname(l.ret[i].filename), leafname(l.ret[j].filename))

\* C19: the listing of a Container is in strictly increasing case-sensitive
\* leafname order, for what its directory holds now and for every member
\* set the backend may return, in either order of report; every listed
\* Entry is a member.
C19_ListingStrictlyAscending ==
    \A id \in Ids, order \in ListOrders :
        /\ Ascends(files(World, id, order))
        /\ \A M \in SUBSET Names :
              LET l == ListingOf(id, M, order)
              IN  /\ l.err = ""
                  /\ Ascends(l)
                  /\ LeafnamesOf(l.ret) \subseteq M
                  /\ {normalise_name(n) : n \in LeafnamesOf(l.ret)}
                        = {normalise_name(n) : n \in M}

\* C19 witness: a Populated Container lists 'A' before 'b', and lists 'B'
\* before 'a' when its directory holds those two, whichever the host
\* reports first.
C19_Witness ==
    \E id \in Ids :
        /\ dirs[id].populated
        /\ Len(files(World, id, Ascending).ret) = 2
        /\ leafname(files(World, id, Ascending).ret[1].filename) = <<"A">>
        /\ leafname(files(World, id, Ascending).ret[2].filename) = <<"b">>
        /\ \A order \in ListOrders :
              /\ Len(ListingOf(id, {<<"B">>, <<"a">>}, order).ret) = 2
              /\ leafname(ListingOf(id, {<<"B">>, <<"a">>}, order).ret[1].filename)
                    = <<"B">>

\* C20: look-up by name goes by the normalised name: it succeeds exactly
\* when contains() of the name is true, returns the Entry stored under the
\* name's key, gives the same result for any two names that normalise
\* equal, and fails with NotFound exactly when the Container, populated by
\* the call, holds no Entry under that key.
C20_LookupByNormalisedName ==
    \A id \in Ids, n \in Names, order \in Orders :
        LET g == getitem_name(World, id, n, order)
            c == contains(World, id, n, order)
            key == normalise_name(n)
        IN  /\ (g.err = "") <=> (c.err = "" /\ c.ret)
            /\ c.err # "" => g.err = c.err
            /\ g.w = c.w
            /\ g.err = "" =>
                  /\ g.ret = g.w.dirs[id].files[key]
                  /\ normalise_name(leafname(g.ret.filename)) = key
            /\ (g.err = "FSFileNotFoundError") <=>
                  (g.w.dirs[id].populated /\ key \notin DOMAIN g.w.dirs[id].files)
            /\ \A m \in Names :
                  normalise_name(m) = key => getitem_name(World, id, m, order) = g

\* C20 witness: a Populated Container lists 'A'; the look-up of 'a' returns
\* that Entry, and the look-up of 'B', which it does not hold, fails with
\* NotFound.
C20_Witness ==
    \E id \in Ids :
        /\ dirs[id].populated
        /\ Str("a") \in DOMAIN dirs[id].files
        /\ leafname(dirs[id].files[Str("a")].filename) = Str("A")
        /\ getitem_name(World, id, Str("a"), Ascending).err = ""
        /\ getitem_name(World, id, Str("a"), Ascending).ret = dirs[id].files[Str("a")]
        /\ Str("b") \notin DOMAIN dirs[id].files
        /\ getitem_name(World, id, <<"B">>, Ascending).err = "FSFileNotFoundError"

\* The integer indices a look-up is examined with.
Indices == {-3, -2, -1, 0, 1, 2}

\* C21: look-up by integer index i returns the i-th Entry of the sorted
\* listing when 0 <= i < number of Entries, and fails with NotFound for
\* every other index, the negative ones included.
C21_IndexLookupInRange ==
    \A id \in Ids, index \in Indices, order \in Orders :
        LET l == files(World, id, order)
            g == getitem_index(World, id, index, order)
        IN  l.err = "" =>
                IF 0 <= index /\ index < Len(l.ret)
                THEN g.err = "" /\ g.ret = l.ret[index + 1]
                ELSE g.err = "FSFileNotFoundError"

\* A directory name in canonical form: the root marker, or the root-prefixed
\* join of its components.
ValidDirname(d) == d = join(<<d>>)

\* C22: for every valid directory name d, the root marker included, and
\* every non-empty leaf l without a separator, dirname(join(d, l)) is d
\* and leafname(join(d, l)) is l.
C22_JoinThenSplitRoundTrip ==
    ValidDirname(pathname) =>
        \A l \in PathLeaves :
            /\ dirname(join(<<pathname, l>>)) = pathname
            /\ leafname(join(<<pathname, l>>)) = l

\* C23: every path string that join() returns, whatever its arguments, and
\* every one that dirname() returns, begins with the root marker.
C23_ResultsAreRooted ==
    /\ StartsWith(join(<<>>), rootname)
    /\ StartsWith(join(<<pathname>>), rootname)
    /\ \A l \in PathLeaves \cup {<<>>} :
          /\ StartsWith(join(<<pathname, l>>), rootname)
          /\ StartsWith(join(<<l, pathname>>), rootname)
    /\ StartsWith(dirname(pathname), rootname)

\* The components of a path string, said without split(): the maximal
\* runs of characters other than the separator, from left to right.
RunStarts(s) ==
    {i \in 1..Len(s) : s[i] # dirsep /\ (i = 1 \/ s[i - 1] = dirsep)}
RunEnd(s, i) ==
    CHOOSE j \in i..Len(s) :
        /\ \A k \in i..j : s[k] # dirsep
        /\ j = Len(s) \/ s[j + 1] = dirsep
RECURSIVE RunsFrom(_, _)
RunsFrom(s, starts) ==
    LET next(i) == <<SubSeq(s, i, RunEnd(s, i))>> \o RunsFrom(s, starts \ {i})
    IN  IF starts = {} THEN <<>>
        ELSE next(CHOOSE x \in starts : \A y \in starts : x <= y)
Components(s) == RunsFrom(s, RunStarts(s))

\* The string with one more separator after its first k characters.
WithSeparatorAt(s, k) == SubSeq(s, 1, k) \o <<dirsep>> \o SubSeq(s, k + 1, Len(s))

\* The decomposition the components call for.
Decomposed(parts) ==
    IF Len(parts) > 1
    THEN <<join(SubSeq(parts, 1, Len(parts) - 1)), parts[Len(parts)]>>
    ELSE IF Len(parts) = 1 THEN <<<<>>, parts[1]>>
    ELSE <<rootname, <<>>>>

\* C24: dirandleafname(p) is (join of all components but the last, last
\* component) for more than one component, (empty string, the component)
\* for exactly one, (root marker, empty string) for none; a separator
\* added where it is redundant, leading or trailing does not change it.
C24_DecompositionByComponents ==
    /\ dirandleafname(pathname) = Decomposed(Components(pathname))
    /\ \A k \in 0..Len(pathname) :
          Components(WithSeparatorAt(pathname, k)) = Components(pathname)
              => dirandleafname(WithSeparatorAt(pathname, k))
                    = dirandleafname(pathname)

\* C24 witness: a path of two components with a doubled separator between
\* them, decomposed into the rooted first component and the second.
C24_Witness ==
    /\ pathname = <<"/", "A", "/", "/", "b">>
    /\ dirandleafname(pathname) = <<Str("/A"), Str("b")>>
    /\ dirandleafname(Str("/b")) = <<Str(""), Str("b")>>
    /\ dirandleafname(<<"/", "/">>) = <<rootname, Str("")>>

\* The paths of the bounded set, and one whose directory differs from that
\* of '/A/b' in case alone.
RenamePaths == Paths \cup {Str("/a/b")}

\* C25: Facade can_rename(src, dst) answers False when the directories of
\* src and dst differ, and otherwise what the Container of that directory
\* answers for the two leafnames; "differ" is decided on the normalised
\* directory names, as Facade rename() decides it.
C25_CanRenameAgreesWithRename ==
    supports_rename =>
        \A s \in RenamePaths, d \in RenamePaths, order \in Orders :
            LET r == fs_can_rename(World, s, d, order)
                source_fsdir == dir(World, dirname(s), order)
                dest_fsdir == dir(source_fsdir.w, dirname(d), order)
            IN  r.err = "" =>
                    IF normalise_name(dirname(s)) # normalise_name(dirname(d))
                    THEN r.ret = FALSE
                    ELSE r.ret = dir_can_rename(dest_fsdir.w, source_fsdir.ret,
                                                leafname(s), leafname(d), order).ret

\* The name is listed by Container id, once it is populated.
Exists(id, name, order) ==
    /\ contains(World, id, name, order).err = ""
    /\ contains(World, id, name, order).ret

\* C26: Container can_rename(source, dest) with a non-empty dest is True
\* exactly when supports_rename is set, the Container is writeable, and
\* either the two names normalise equal or the source is listed and the
\* dest is not.
C26_ContainerCanRename ==
    \A id \in Ids, s \in Names, d \in Names, order \in Orders :
        LET r == dir_can_rename(World, id, s, d, order)
        IN  /\ r.err = ""
            /\ r.ret <=>
                  /\ supports_rename
                  /\ is_writeable(World, id)
                  /\ \/ normalise_name(s) = normalise_name(d)
                     \/ Exists(id, s, order) /\ ~Exists(id, d, order)

\* C26 witness: a writeable Container under supports_rename lists 'A' and
\* 'b': renaming 'b' to 'A' is refused, and 'b' to 'B' and 'A' to 'a',
\* which stay under their own key, are allowed.
C26_Witness ==
    /\ supports_rename
    /\ \E id \in Ids :
          /\ dirs[id].populated /\ is_writeable(World, id)
          /\ DOMAIN dirs[id].files = {Str("a"), Str("b")}
          /\ dir_can_rename(World, id, Str("b"), Str("A"), Ascending).ret = FALSE
          /\ dir_can_rename(World, id, Str("b"), <<"B">>, Ascending).ret = TRUE
          /\ dir_can_rename(World, id, Str("A"), Str("a"), Ascending).ret = TRUE

\* The Entry that the look-up of the name in Container id finds says it
\* can be deleted.
FoundAndDeletable(id, name, order) ==
    LET g == getitem_name(World, id, name, order)
        allowed(e) == e.err = "" /\ e.ret
    IN  /\ g.err = ""
        /\ allowed(file_can_delete(g.w, g.ret.filename, order))

\* C27: Container can_delete(leafname) is True exactly when supports_delete
\* is set, the Container is writeable, the look-up of the leafname succeeds
\* and the Entry found answers True to its own can_delete(); a leafname
\* that is not found yields False.
C27_ContainerCanDelete ==
    \A id \in Ids, name \in Names, order \in Orders :
        LET r == dir_can_delete(World, id, name, order)
        IN  /\ r.err = ""
            /\ r.ret <=>
                  /\ supports_delete
                  /\ is_writeable(World, id)
                  /\ FoundAndDeletable(id, name, order)
            /\ getitem_name(World, id, name, order).err # "" => ~r.ret

\* C27 witness: under supports_delete, a writeable Populated Container
\* that lists 'b' and nothing named 'a' answers True for 'b', whose Entry
\* says it can be deleted, and False for 'A', which it does not find.
C27_Witness ==
    /\ supports_delete /\ deletable
    /\ \E id \in Ids :
          /\ dirs[id].populated /\ is_writeable(World, id)
          /\ Str("b") \in DOMAIN dirs[id].files
          /\ Str("a") \notin DOMAIN dirs[id].files
          /\ dir_can_delete(World, id, Str("b"), Ascending).ret = TRUE
          /\ getitem_name(World, id, Str("A"), Ascending).err # ""
          /\ dir_can_delete(World, id, Str("A"), Ascending).ret = FALSE

\* The call returned the answer and left the cache, every Container and
\* the backend as they were, having invoked no hook.
Answers(r, answer) == r.err = "" /\ r.ret = answer /\ r.w = World

\* C28: Container can_mkdir() is True exactly when supports_mkdir is set
\* and is_writeable() holds; the Facade's can_mkdir(), can_delete() and
\* can_rename() called with no path return exactly the corresponding flag,
\* resolve no directory and leave the cache unchanged.
C28_PathlessGatesAreTheFlags ==
    /\ \A id \in Ids :
          LET r == dir_can_mkdir(World, id)
          IN  /\ r.err = ""
              /\ r.ret <=> supports_mkdir /\ is_writeable(World, id)
    /\ \A order \in Orders :
          /\ Answers(fs_can_mkdir(World, None, order), supports_mkdir)
          /\ Answers(fs_can_delete(World, None, order), supports_delete)
          /\ Answers(fs_can_rename(World, None, None, order), supports_rename)

\* C28 witness: under supports_mkdir, a writeable Container that answers
\* True is cached next to one that is not writeable and answers False, and
\* the Facade's can_mkdir() answers True.
C28_Witness ==
    /\ supports_mkdir
    /\ \E id \in Ids, other \in Ids :
          /\ is_writeable(World, id) /\ ~is_writeable(World, other)
          /\ dir_can_mkdir(World, id).ret = TRUE
          /\ dir_can_mkdir(World, other).ret = FALSE
    /\ DOMAIN cached_dirs # {}
    /\ fs_can_mkdir(World, None, Ascending).ret = TRUE

\* The mutation of Container id invoked the hook exactly once, on that
\* Container, and returned with the Container Unpopulated exactly when the
\* hook returned.
HookedOnce(r, id, hook, returns) ==
    /\ Len(Hooks(r.w, hook)) = 1
    /\ Hooks(r.w, hook)[1].on = id
    /\ MutationHooks(r.w) = Hooks(r.w, hook)
    /\ returns <=> r.err = ""
    /\ returns => ~r.w.dirs[id].populated /\ r.w.dirs[id].files = <<>>

\* The backend's do_mkdir() returns.
MkdirReturns(id, leaf, hook_ok) == do_mkdir(World, id, leaf, hook_ok).err = ""

\* The backend's do_rename() returns, called once the Container is listed.
RenameReturns(id, s, d, order, hook_ok) ==
    do_rename(contains(World, id, d, order).w, id, s, d, hook_ok).err = ""

\* C29: Container mkdir on a writeable Container, and Container rename with
\* differing normalised names, an existing source, an absent destination
\* and a writeable Container, each invoke their hook exactly once and, when
\* the hook returns, leave that Container Unpopulated; mkdir on a
\* non-writeable Container fails with WriteFailed.
C29_MutationsHookOnceAndInvalidate ==
    \A id \in Ids, hook_ok \in BOOLEAN :
        /\ \A leaf \in Names :
              LET r == dir_mkdir(World, id, leaf, hook_ok)
              IN  IF is_writeable(World, id)
                  THEN HookedOnce(r, id, "do_mkdir", MkdirReturns(id, leaf, hook_ok))
                  ELSE r.err = "FSWriteFailedError"
        /\ \A s \in Names, d \in Names, order \in Orders :
              ( /\ normalise_name(s) # normalise_name(d)
                /\ is_writeable(World, id)
                /\ Exists(id, s, order) /\ ~Exists(id, d, order) )
              => HookedOnce(dir_rename(World, id, s, d, order, hook_ok), id,
                            "do_rename", RenameReturns(id, s, d, order, hook_ok))

\* C29 witness: a Populated, writeable Container that lists 'a' and nothing
\* named 'b' is left Unpopulated by a mkdir and by a rename whose hooks
\* return, next to a Container that is not writeable and whose mkdir fails.
C29_Witness ==
    \E id \in Ids, other \in Ids :
        /\ dirs[id].populated /\ is_writeable(World, id)
        /\ Exists(id, Str("a"), Ascending) /\ ~Exists(id, Str("b"), Ascending)
        /\ dir_mkdir(World, id, Str("b"), TRUE).err = ""
        /\ ~dir_mkdir(World, id, Str("b"), TRUE).w.dirs[id].populated
        /\ dir_rename(World, id, Str("a"), Str("b"), Ascending, TRUE).err = ""
        /\ ~dir_rename(World, id, Str("a"), Str("b"), Ascending, TRUE).w.dirs[id].populated
        /\ ~is_writeable(World, other)
        /\ dir_mkdir(World, other, Str("b"), TRUE).err = "FSWriteFailedError"

\* Every Container of the state other than the target is in world w what
\* it is in the state: same population state, same Entries.
Untouched(w, target) == \A other \in Ids \ {target} : w.dirs[other] = dirs[other]

\* No Populated Container of the state other than one target is reset in
\* world w.
ResetsAtMostOne(w) ==
    \E target \in DOMAIN w.dirs :
        \A other \in Ids \ {target} :
            dirs[other].populated => w.dirs[other] = dirs[other]

\* C30: invalidate() on one Container, called directly, through
\* invalidate_dir, or as the last step of a mutation, changes the
\* population state of that Container only: every other cached Container,
\* descendants and ancestors included, keeps its population state and its
\* Entries.
C30_InvalidateTouchesOneContainer ==
    /\ \A id \in Ids :
          LET w == invalidate(World, id)
          IN  /\ ~w.dirs[id].populated
              /\ Untouched(w, id)
              /\ w.cache = cached_dirs
    /\ \A n \in Paths :
          LET w == invalidate_dir(World, n)
              key == normalise_name(n)
          IN  IF do_caching /\ key \in DOMAIN cached_dirs
              THEN /\ ~w.dirs[cached_dirs[key]].populated
                   /\ Untouched(w, cached_dirs[key])
                   /\ w.cache = cached_dirs
              ELSE w = World
    /\ \A id \in Ids, order \in Orders, hook_ok \in BOOLEAN :
          /\ \A leaf \in Names :
                LET r == dir_mkdir(World, id, leaf, hook_ok)
                IN  r.err = "" => ~r.w.dirs[id].populated /\ Untouched(r.w, id)
          /\ \A s \in Names, d \in Names :
                LET r == dir_rename(World, id, s, d, order, hook_ok)
                IN  (r.err = "" /\ normalise_name(s) # normalise_name(d))
                        => ~r.w.dirs[id].populated /\ Untouched(r.w, id)
    /\ \A x \in EntryRefs, order \in Orders, hook_ok \in BOOLEAN :
          LET r == file_delete(World, x[1], x[2], order, hook_ok)
          IN  r.err = "" => ResetsAtMostOne(r.w)

\* C30 witness: a Populated Container and a Populated Container below it,
\* both with Entries; invalidating the upper one directly or by a mkdir in
\* it leaves the lower one Populated, and invalidating the lower one by
\* name leaves the upper one Populated.
C30_Witness ==
    \E id \in Ids, child \in Ids :
        /\ dirs[id].dirname = rootname /\ dirs[child].dirname = Str("/A")
        /\ normalise_name(Str("/A")) \in DOMAIN cached_dirs
        /\ cached_dirs[normalise_name(Str("/A"))] = child
        /\ dirs[id].populated /\ dirs[id].files # <<>>
        /\ dirs[child].populated /\ dirs[child].files # <<>>
        /\ invalidate(World, id).dirs[child].populated
        /\ invalidate_dir(World, Str("/A")).dirs[id].populated
        /\ ~invalidate_dir(World, Str("/A")).dirs[child].populated
        /\ dir_mkdir(World, id, <<"B">>, TRUE).err = ""
        /\ dir_mkdir(World, id, <<"B">>, TRUE).w.dirs[child].populated

\* The one-component directory names under the root.
TopLevel == {Str("/A"), Str("/a")}

\* C31: the Container constructed for a top-level directory has as its
\* parent the same Container instance that dir(root marker) returns,
\* whether the root is resolved before or after it.
C31_TopLevelParentIsRoot ==
    do_caching =>
        \A p \in TopLevel, order \in Orders :
            LET child == dir(World, p, order)
                root == dir(child.w, rootname, order)
            IN  (child.err = "" /\ root.err = "")
                    => root.w.dirs[child.ret].parent = root.ret

\* The recursive calls the ancestor walk of dir(name) makes on an empty
\* cache: one for each name that has a parent to resolve.
RECURSIVE WalkLength(_)
WalkLength(name) ==
    IF HasParent(name) THEN 1 + WalkLength(dirname(name)) ELSE 0

\* The names get_dir was invoked for, in order.
Made(w) == [i \in DOMAIN Hooks(w, "get_dir") |-> Hooks(w, "get_dir")[i].arg]

\* get_dir was invoked at most once for each name, only for the name and
\* its ancestors, and for all of them when dir() returned from an empty
\* cache.
MadeOncePerAncestor(r, name) ==
    /\ \A i \in DOMAIN Made(r.w), j \in DOMAIN Made(r.w) :
          Made(r.w)[i] = Made(r.w)[j] => i = j
    /\ \A i \in DOMAIN Made(r.w) : Made(r.w)[i] \in Ancestry(name)
    /\ Len(Made(r.w)) <= WalkLength(name) + 1
    /\ (r.err = "" /\ cached_dirs = <<>>) => Len(Made(r.w)) = WalkLength(name) + 1

\* C32, as claimed: dir(p) terminates for every path string p; the ancestor
\* walk makes one recursive call per path component and invokes get_dir at
\* most once for p and once for each ancestor.
C32_OneCallPerComponent ==
    \A order \in Orders :
        /\ WalkLength(pathname) = Len(Components(pathname))
        /\ MadeOncePerAncestor(dir(World, pathname, order), pathname)

\* A spelling of the root with more than one separator.
RootRespelled(name) == Components(name) = <<>> /\ Len(name) > 1

\* C32, amended: dir(p) terminates for every path string p; the ancestor
\* walk makes one recursive call per path component, and one call for a
\* root spelled with several separators; get_dir is invoked at most once
\* for p and once for each ancestor.
C32_WalkBoundedByComponents ==
    \A order \in Orders :
        /\ WalkLength(pathname) = IF RootRespelled(pathname) THEN 1
                                  ELSE Len(Components(pathname))
        /\ MadeOncePerAncestor(dir(World, pathname, order), pathname)

\* C32 witness: a path of two components resolved on an empty cache by two
\* recursive calls and three get_dir invocations, root first.
C32_Witness ==
    /\ pathname = <<"/", "A", "/", "/", "b">>
    /\ cached_dirs = <<>>
    /\ WalkLength(pathname) = 2
    /\ dir(World, pathname, Ascending).err = ""
    /\ Made(dir(World, pathname, Ascending).w) = <<Str(""), Str("/A"), pathname>>

\* The successful stats and the isdir queries among the backend queries.
Stats(log) == SelectSeq(log, LAMBDA c : c.call = "os.stat" /\ c.result.found)
IsDirs(log) == SelectSeq(log, LAMBDA c : c.call = "os.path.isdir")

\* C33: for a native Entry, any sequence of size() and modified-time
\* queries performs the backend stat at most once once a stat has
\* succeeded, and every later query returns the values of that first stat;
\* isdir() likewise queries the backend at most once.
C33_StatMemoisedOnce ==
    LET s == native_size(nativefile, inode, oscalls)
        t == native_epochtime(nativefile, inode, oscalls)
        d == native_isdir(nativefile, inode, oscalls)
    IN  /\ Len(Stats(s.log)) <= 1 /\ Len(Stats(t.log)) <= 1
        /\ s.err = "" => /\ Len(Stats(s.log)) = 1
                         /\ s.ret = Stats(s.log)[1].result.st_size
        /\ t.err = "" => /\ Len(Stats(t.log)) = 1
                         /\ t.ret = Stats(t.log)[1].result.st_mtime
        /\ Stats(oscalls) # <<>> => s.log = oscalls /\ t.log = oscalls
        /\ d.err = "" /\ Len(IsDirs(d.log)) = 1
        /\ d.ret = IsDirs(d.log)[1].result

\* C33 witness: the Entry has stat'ed a file and asked isdir; the file has
\* since been replaced by a directory of another size and time, and the
\* queries still return the first answers.
C33_Witness ==
    /\ nativefile.stat_read /\ nativefile.isdir = "no"
    /\ inode.found /\ inode.dir
    /\ inode.st_size # nativefile.size.value
    /\ inode.st_mtime # nativefile.epochtime.value
    /\ native_size(nativefile, inode, oscalls).ret = nativefile.size.value
    /\ native_epochtime(nativefile, inode, oscalls).ret = nativefile.epochtime.value
    /\ native_isdir(nativefile, inode, oscalls).ret = FALSE
    /\ Len(oscalls) = 2

\* C34: for every Entry e in the listing of a Container c obtained from
\* dir(p), the root directory included, e.parent() returns that same
\* Container c.
C34_EntryParentIsListingContainer ==
    \A p \in DirArgs, order \in Orders :
        LET c == dir(World, p, order)
            l == files(c.w, c.ret, order)
        IN  (c.err = "" /\ l.err = "") =>
                \A i \in DOMAIN l.ret :
                    LET up == file_parent(l.w, l.ret[i].filename, order)
                    IN  up.err = "" /\ up.ret = c.ret

\* C35: Entry.delete() on an Entry whose can_delete() is true and whose
\* do_delete hook returns normally completes without raising, for
\* non-directory Entries as well as directory Entries.
C35_DeleteCompletes ==
    \A x \in EntryRefs, order \in Orders, hook_ok \in BOOLEAN :
        LET filename == dirs[x[1]].files[x[2]].filename
            gate == file_can_delete(World, filename, order)
            hook == do_delete(gate.w, filename, hook_ok)
        IN  (gate.err = "" /\ gate.ret /\ hook.err = "")
                => file_delete(World, x[1], x[2], order, hook_ok).err = ""

\* C36: whenever Container rename(source, dest) returns without error in
\* some state, Container can_rename(source, dest) evaluated in that same
\* state is true, also when source and dest normalise equal and the
\* Container is not writeable or supports_rename is off.
C36_RenameImpliesCanRename ==
    \A id \in Ids, s \in Names, d \in Names, order \in Orders, hook_ok \in BOOLEAN :
        dir_rename(World, id, s, d, order, hook_ok).err = ""
            => dir_can_rename(World, id, s, d, order).ret

\* C37: after population a Container holds exactly one Entry for each
\* distinct leafname the backend returned: the listing length equals the
\* number of distinct raw leafnames, also when two leafnames differ only in
\* case, and no two listed Entries share a normalised leafname.
C37_OneEntryPerLeafname ==
    \A id \in Ids, order \in Orders :
        LET l == files(invalidate(World, id), id, order)
            returned == Range(get_filelist(World, id, order))
        IN  l.err = "" =>
                /\ Len(l.ret) = Cardinality(returned)
                /\ LeafnamesOf(l.ret) = returned
                /\ \A i \in DOMAIN l.ret, j \in DOMAIN l.ret :
                      normalise_name(leafname(l.ret[i].filename))
                          = normalise_name(leafname(l.ret[j].filename)) => i = j

\* No call made in the current state removes a key of the cache or maps it
\* to another Container, and dir() of a cached name returns the cached
\* Container.
CacheKept ==
    /\ AllQueries("keeps cache")
    /\ PathGates("keeps cache")
    /\ PlainGates("keeps cache")
    /\ AllMutations("keeps cache")
    /\ \A id \in Ids : KeepsCache(invalidate(World, id))
    /\ \A n \in Paths : KeepsCache(invalidate_dir(World, n))
    /\ \A q \in Paths, order \in Orders :
          normalise_name(q) \in DOMAIN cached_dirs
              => /\ dir(World, q, order).err = ""
                 /\ dir(World, q, order).ret = cached_dirs[normalise_name(q)]

\* A step keeps every key of the cache on the Container it maps to.
CacheStable ==
    \A k \in DOMAIN cached_dirs : k \in DOMAIN cached_dirs' /\ cached_dirs'[k] = cached_dirs[k]

\* C38: with caching enabled, no operation removes a cache entry or
\* replaces the Container mapped to an existing key: once dir(p) has
\* returned Container c, every later dir(q) with normalise(q) = normalise(p)
\* returns c, also after invalidations and successful mutations.
C38_CacheEntriesAreStable ==
    /\ [](do_caching => CacheKept)
    /\ [][do_caching => CacheStable]_vars

\* C38 witness: a cached Container that was invalidated after a successful
\* mkdir in it is still what dir() of its name returns.
C38_Witness ==
    /\ do_caching
    /\ normalise_name(Str("/A")) \in DOMAIN cached_dirs
    /\ ~dirs[cached_dirs[normalise_name(Str("/A"))]].populated
    /\ Kind(disk, <<<<"A">>, <<"a">>>>) = "dir"
    /\ dir(World, Str("/a"), Ascending).ret = cached_dirs[normalise_name(Str("/A"))]
    /\ invalidate_dir(World, Str("/A")).cache = cached_dirs

\* Two successive calls hand out the Container that dir(rootname()) returns,
\* and invalidate_dir(rootname()) leaves that Container Unpopulated.
HandsOutCachedRoot(first, second) ==
    LET named == dir(second.w, rootname, Ascending)
        listed == files(named.w, first.ret, Ascending)
    IN  /\ first.err = "" /\ second.err = "" /\ named.err = ""
        /\ first.ret = second.ret
        /\ first.ret = named.ret
        /\ listed.err = ""
              => ~invalidate_dir(listed.w, rootname).dirs[first.ret].populated

\* C39: with caching enabled, successive rootdir() calls return the same
\* Container instance as dir(rootname()), for the base Filesystem and for
\* the native backend alike, so invalidate_dir(rootname()) resets the
\* Container that rootdir() hands out.
C39_RootdirIsCachedRoot ==
    do_caching =>
        /\ HandsOutCachedRoot(rootdir(World), rootdir(rootdir(World).w))
        /\ HandsOutCachedRoot(FSNative_rootdir(World),
                              FSNative_rootdir(FSNative_rootdir(World).w))

\* C40: after any sequence of window openings, refreshes, directory changes
\* and window closes, every open explorer frame created with a registry is
\* the frame registered under its normalised directory name, hence at most
\* one explorer frame is open per directory.
C40_OpenFramesAreRegistered ==
    /\ \A window \in DOMAIN frames :
          /\ fsfile_key(frames[window].dirname) \in DOMAIN open_windows
          /\ open_windows[fsfile_key(frames[window].dirname)] = window
    /\ \A f \in DOMAIN frames, g \in DOMAIN frames :
          fsfile_key(frames[f].dirname) = fsfile_key(frames[g].dirname) => f = g
====
